---- MODULE Spec2Model ----
(***************************************************************************)
(* Model of two pieces of the Storybook repository:                        *)
(*   - code/frameworks/nextjs/src/routing/app-router-provider.tsx          *)
(*     (AppRouterProvider, getParallelRoutes, getSelectedParams)           *)
(*   - code/lib/core-server/src/presets/common-preset.ts                   *)
(*     (staticDirs, favicon, core, experimental_indexers, managerEntries,  *)
(*      experimental_serverChannel)                                        *)
(*                                                                         *)
(* JavaScript strings that the code inspects character by character        *)
(* (startsWith, split, toUpperCase) are sequences of one-character         *)
(* strings; strings that are only compared or used as keys are TLA+        *)
(* strings.                                                                *)
(***************************************************************************)
EXTENDS Integers, Sequences, FiniteSets, TLC

VARIABLES
    \* ---- app-router-provider.tsx ----
    routeParams,    \* the caller's routeParams object: pathname, segments
    tree,           \* the FlightRouterState built by the last render
    pathParams,     \* the value given to PathParamsContext by the last render
    renders,        \* number of renders performed so far
    origSegments,   \* history: routeParams.segments as first passed in
    firstRender,    \* history: tree and pathParams of the first render
    \* ---- common-preset.ts, preset functions ----
    presetArgs,     \* the arguments the plugin pipeline calls the presets with
    presetResult,   \* preset name -> what the preset returned, once applied
    disk,           \* the favicon files on disk
    faviconCall,    \* the running call of favicon: its awaits and locals
    \* ---- common-preset.ts, experimental_serverChannel ----
    coreOptions,    \* the core config resolved when the channel is set up
    cacheStore,     \* what options.cache holds under 'whats-new-cache'
    mainConfig,     \* core.disableWhatsNewNotifications in the main config file
    handlers,       \* the handler invocations, in order of event arrival
    lastSet,        \* history: key -> value of the last completed SET carrying it
    mergedCache     \* history: the cache the completed SETs merge to, one by one

routerVars == <<routeParams, tree, pathParams, renders, origSegments, firstRender>>

presetVars == <<presetArgs, presetResult, disk, faviconCall>>

channelVars == <<coreOptions, cacheStore, mainConfig, handlers, lastSet, mergedCache>>

vars == <<routeParams, tree, pathParams, renders, origSegments, firstRender,
          presetArgs, presetResult, disk, faviconCall,
          coreOptions, cacheStore, mainConfig, handlers, lastSet, mergedCache>>

-----------------------------------------------------------------------------
(* Bounds *)

MaxSegments == 3
MaxRenders == 2
MaxPrevious == 3        \* longest previous value given to a list preset
MaxStaticDirs == 2      \* longest staticDirs value seen by favicon
MaxDiskChanges == 1     \* files created or removed while favicon runs
MaxEvents == 3          \* channel events received in one run
MaxWhatsNewEvents == 2  \* events received in a run of whats-new events only
MaxTelemetryEvents == 2 \* events received in a run of telemetry events only

-----------------------------------------------------------------------------
(* JavaScript string helpers *)

\* String.prototype.startsWith
startsWith(s, prefix) ==
    /\ Len(s) >= Len(prefix)
    /\ SubSeq(s, 1, Len(prefix)) = prefix

\* index of the first occurrence of character c in s, 0 when absent
IndexOf(s, c) ==
    IF \E i \in 1..Len(s) : s[i] = c
    THEN CHOOSE i \in 1..Len(s) : s[i] = c /\ \A j \in 1..(i - 1) : s[j] # c
    ELSE 0

\* a split that never cuts: the whole string as the single piece
splitKeepWhole(s, sep) == <<s>>

RECURSIVE split(_, _)
\* String.prototype.split with a one-character separator: always at least
\* one piece, empty pieces kept.
split(s, sep) ==
    LET i == IndexOf(s, sep) IN
    IF i = 0 THEN <<s>>
    ELSE <<SubSeq(s, 1, i - 1)>> \o split(SubSeq(s, i + 1, Len(s)), sep)

-----------------------------------------------------------------------------
(* app-router-provider.tsx *)

\* next/dist/shared/lib/segment: PAGE_SEGMENT_KEY = '__PAGE__'
PAGE_SEGMENT_KEY == <<"_", "_", "P", "A", "G", "E", "_", "_">>

\* A segment of routeParams.segments is a plain string or an array
\* [name, value, type?].  Both shapes are one record here: isArray tells them
\* apart (Array.isArray), value is the string itself or segment[1], name is
\* segment[0] and type is segment[2] ("none" when the array has two elements).
StaticSegment(s) == [isArray |-> FALSE, name |-> "", value |-> s, type |-> "none"]
DynamicSegment(n, v, t) == [isArray |-> TRUE, name |-> n, value |-> v, type |-> t]

\* The segments the renders are given.
SegmentPool ==
    { StaticSegment(<<"a">>),
      StaticSegment(<<>>),
      StaticSegment(PAGE_SEGMENT_KEY),
      StaticSegment(<<"_", "_", "P">>),
      DynamicSegment("id", <<"a">>, "none"),
      DynamicSegment("id", <<"a", "/", "b">>, "oc"),
      DynamicSegment("slug", <<"a", "/", "/", "b">>, "c"),
      DynamicSegment("slug", <<"b", "/">>, "d"),
      DynamicSegment("id", <<>>, "d"),
      DynamicSegment("slug", PAGE_SEGMENT_KEY \o <<"?", "x">>, "c") }

RECURSIVE SeqsUpTo(_, _)
\* all sequences over S of length at most n
SeqsUpTo(S, n) ==
    IF n = 0 THEN { <<>> }
    ELSE LET shorter == SeqsUpTo(S, n - 1) IN
         shorter \cup { Append(q, x) : q \in { r \in shorter : Len(r) = n - 1 }, x \in S }

\* JavaScript truthiness of `segment` in `if (segment)`: an array is always
\* truthy, a string is truthy unless it is empty.
Truthy(segment) == segment.isArray \/ segment.value # <<>>

\* The empty node `[]` returned at the end of the list.
EmptyNode == <<>>

RECURSIVE getParallelRoutes(_)
\* getParallelRoutes consumes its argument with shift().  The result carries
\* the tree and what is left of the argument array afterwards.
getParallelRoutes(segmentsList) ==
    IF segmentsList = <<>>
    THEN [tree |-> EmptyNode, rest |-> <<>>]          \* shift() gave undefined
    ELSE LET segment == Head(segmentsList)
             shifted == Tail(segmentsList)
         IN IF Truthy(segment)
            THEN LET sub == getParallelRoutes(shifted)
                 IN [tree |-> <<segment, [children |-> sub.tree]>>, rest |-> sub.rest]
            ELSE [tree |-> EmptyNode, rest |-> shifted]

\* params[key] = value on a JavaScript object
SetParam(params, key, value) ==
    [k \in (DOMAIN params) \cup {key} |-> IF k = key THEN value ELSE params[k]]

RECURSIVE getSelectedParams(_, _)
\* Object.values(parallelRoutes) has the single entry `children`.
getSelectedParams(currentTree, params) ==
    LET parallelRoute == currentTree[2].children IN
    IF Len(parallelRoute) = 0
    THEN params                         \* segment undefined: !segmentValue
    ELSE LET segment == parallelRoute[1]
             isDynamicParameter == segment.isArray
             segmentValue == segment.value
         IN IF segmentValue = <<>> \/ startsWith(segmentValue, PAGE_SEGMENT_KEY)
            THEN params
            ELSE LET isCatchAll == isDynamicParameter /\ segment.type \in {"c", "oc"}
                     params2 ==
                        IF isCatchAll
                        THEN SetParam(params, segment.name, split(segment.value, "/"))
                        ELSE IF isDynamicParameter
                        THEN SetParam(params, segment.name, segment.value)
                        ELSE params
                 IN getSelectedParams(parallelRoute, params2)

\* `{}`: a params object with no keys
EmptyParams == [k \in {} |-> <<>>]

\* the argument without the copy: getParallelRoutes(segments)
SegmentsArgAliased(segments) == [array |-> segments, fresh |-> FALSE]

\* `[...segments]` hands getParallelRoutes a fresh array, so the shift() calls
\* do not reach routeParams.segments.
SegmentsArg(segments) == [array |-> segments, fresh |-> TRUE]

\* One render of AppRouterProvider.  `segments = []` is the destructuring
\* default when routeParams.segments is undefined.
AppRouterProvider ==
    /\ renders < MaxRenders
    /\ LET segments == IF routeParams.hasSegments THEN routeParams.segments ELSE <<>>
           arg == SegmentsArg(segments)
           built == getParallelRoutes(arg.array)
           newTree == <<routeParams.pathname, [children |-> built.tree]>>
           newParams == getSelectedParams(newTree, EmptyParams)
       IN /\ tree' = newTree
          /\ pathParams' = newParams
          /\ routeParams' =
                IF arg.fresh \/ ~routeParams.hasSegments
                THEN routeParams
                ELSE [routeParams EXCEPT !.segments = built.rest]
          /\ firstRender' = IF renders = 0
                            THEN [tree |-> newTree, pathParams |-> newParams]
                            ELSE firstRender
    /\ renders' = renders + 1
    /\ UNCHANGED origSegments
    /\ UNCHANGED presetVars
    /\ UNCHANGED channelVars

NoRender == [tree |-> <<>>, pathParams |-> EmptyParams]

\* no preset has been called
PresetIdle ==
    /\ presetArgs = <<>>
    /\ presetResult = <<>>
    /\ disk = {}
    /\ faviconCall = <<>>

\* no server channel is set up
ChannelIdle ==
    /\ coreOptions = <<>>
    /\ cacheStore = <<>>
    /\ mainConfig = <<>>
    /\ handlers = <<>>
    /\ lastSet = <<>>
    /\ mergedCache = <<>>

RouterInit ==
    /\ PresetIdle
    /\ ChannelIdle
    /\ \E hs \in BOOLEAN :
       \E segs \in (IF hs THEN SeqsUpTo(SegmentPool, MaxSegments) ELSE { <<>> }) :
          /\ routeParams = [pathname |-> <<"/", "p">>, hasSegments |-> hs, segments |-> segs]
          /\ origSegments = segs
    /\ tree = <<>>
    /\ pathParams = EmptyParams
    /\ renders = 0
    /\ firstRender = NoRender

SpecRouter == RouterInit /\ [][AppRouterProvider]_vars

-----------------------------------------------------------------------------
(* Claims about app-router-provider.tsx *)

RECURSIVE MirrorTree(_)
\* one nested node per segment, in order, ending in the empty node
MirrorTree(segs) ==
    IF segs = <<>> THEN EmptyNode
    ELSE <<Head(segs), [children |-> MirrorTree(Tail(segs))]>>

\* C1: for every list of segments, the tree built by a render is
\* [pathname, {children: T1}] with exactly one nested node per input segment,
\* in input order, ending in the empty node.
C1_TreeMirrorsSegments ==
    renders >= 1 =>
        tree = <<routeParams.pathname, [children |-> MirrorTree(origSegments)]>>

\* the segment's value is empty or starts with '__PAGE__'
StopsWalk(seg) ==
    \/ Len(seg.value) = 0
    \/ /\ Len(seg.value) >= Len(PAGE_SEGMENT_KEY)
       /\ \A i \in 1..Len(PAGE_SEGMENT_KEY) : seg.value[i] = PAGE_SEGMENT_KEY[i]

\* number of segments in front of the first one that stops the walk
WalkLen(segs) ==
    IF \E i \in 1..Len(segs) : StopsWalk(segs[i])
    THEN (CHOOSE i \in 1..Len(segs) :
            StopsWalk(segs[i]) /\ \A j \in 1..(i - 1) : ~StopsWalk(segs[j])) - 1
    ELSE Len(segs)

RECURSIVE JoinSlash(_)
\* the pieces joined with '/' between them
JoinSlash(pieces) ==
    IF Len(pieces) = 1 THEN pieces[1]
    ELSE pieces[1] \o <<"/">> \o JoinSlash(Tail(pieces))

\* v is what the claim expects for the dynamic segment seg: the string
\* itself, or for 'c' / 'oc' the list of its '/'-separated pieces.
IsParamValueOf(v, seg) ==
    IF seg.type \in {"c", "oc"}
    THEN /\ Len(v) >= 1
         /\ \A i \in 1..Len(v) : \A j \in 1..Len(v[i]) : v[i][j] # "/"
         /\ JoinSlash(v) = seg.value
    ELSE v = seg.value

\* C2: the params of a render hold, for every dynamic segment in front of
\* the first segment whose value is empty or starts with '__PAGE__', the
\* entry name -> value (the '/'-split list for catch-all segments); the
\* deeper segment wins when a name repeats; static segments and segments at
\* or below the stopping one add nothing.
C2_SelectedParams ==
    renders >= 1 =>
        LET n == WalkLen(origSegments)
            dyn == { i \in 1..n : origSegments[i].isArray }
        IN /\ DOMAIN pathParams = { origSegments[i].name : i \in dyn }
           /\ \A i \in dyn :
                (\A j \in dyn : j > i => origSegments[j].name # origSegments[i].name)
                    => IsParamValueOf(pathParams[origSegments[i].name], origSegments[i])

\* a render of: a dynamic segment, a catch-all of the same name, then a
\* catch-all whose value starts with '__PAGE__'
C2_Witness ==
    /\ renders >= 1
    /\ Len(origSegments) = 3
    /\ origSegments[1].isArray /\ origSegments[1].name = "id"
    /\ origSegments[2] = DynamicSegment("id", <<"a", "/", "b">>, "oc")
    /\ origSegments[3] = DynamicSegment("slug", PAGE_SEGMENT_KEY \o <<"?", "x">>, "c")
    /\ pathParams = [k \in {"id"} |-> << <<"a">>, <<"b">> >>]

\* C10: after any number of renders with the same routeParams object,
\* routeParams.segments has its original contents and the render produced
\* the same tree and the same path params as the first render.
C10_RenderLeavesSegments ==
    renders >= 1 =>
        /\ routeParams.segments = origSegments
        /\ tree = firstRender.tree
        /\ pathParams = firstRender.pathParams

\* a second render of a three-segment list that yields params
C10_Witness ==
    /\ renders = 2
    /\ Len(origSegments) = 3
    /\ DOMAIN pathParams # {}
    /\ tree = <<routeParams.pathname, [children |-> MirrorTree(origSegments)]>>

-----------------------------------------------------------------------------
(* JavaScript values and objects *)

Undefined == [type |-> "undefined"]
Bool(b) == [type |-> "boolean", b |-> b]
Str(s) == [type |-> "string", s |-> s]

\* truthiness of undefined, a boolean or a string
JsTruthy(v) ==
    \/ v.type = "boolean" /\ v.b
    \/ v.type = "string" /\ Len(v.s) > 0

\* a || b
JsOr(a, b) == IF JsTruthy(a) THEN a ELSE b

\* { ...a, ...b } on objects, which are functions from key to value
Spread(a, b) ==
    [k \in (DOMAIN a) \cup (DOMAIN b) |-> IF k \in DOMAIN b THEN b[k] ELSE a[k]]

\* an optional array argument: undefined, or the array `items`
NoArray == [defined |-> FALSE, items |-> <<>>]
Array(items) == [defined |-> TRUE, items |-> items]

\* no app router is rendered
RouterIdle ==
    /\ routeParams = [pathname |-> <<"/", "p">>, hasSegments |-> FALSE, segments |-> <<>>]
    /\ origSegments = <<>>
    /\ tree = <<>>
    /\ pathParams = EmptyParams
    /\ renders = 0
    /\ firstRender = NoRender

\* the preset `name` returns `result`
Returns(name, result) ==
    /\ name \notin DOMAIN presetResult
    /\ presetResult' = [k \in (DOMAIN presetResult) \cup {name} |->
                            IF k = name THEN result ELSE presetResult[k]]

\* a preset without awaits: called and returned in one step
Return(name, result) ==
    /\ Returns(name, result)
    /\ UNCHANGED <<presetArgs, disk, faviconCall>>
    /\ UNCHANGED routerVars
    /\ UNCHANGED channelVars

-----------------------------------------------------------------------------
(* common-preset.ts: the list-valued presets *)

\* ../utils/constants: the one built-in static dir
defaultStaticDirs == << "sb-common-assets" >>

csfIndexer == "csfIndexer"

\* require.resolve('./common-manager')
commonManager == "common-manager"

\* [...values, ...defaultStaticDirs]: the defaults after the previous value
staticDirsDefaultsLast(values) ==
    (IF values.defined THEN values.items ELSE <<>>) \o defaultStaticDirs

\* async (values = []) => [...defaultStaticDirs, ...values]
staticDirs(values) ==
    defaultStaticDirs \o (IF values.defined THEN values.items ELSE <<>>)

\* [csfIndexer].concat(existingIndexers || []); an array is always truthy
experimental_indexers(existingIndexers) ==
    <<csfIndexer>> \o (IF existingIndexers.defined THEN existingIndexers.items ELSE <<>>)

\* [require.resolve('./common-manager'), ...(existing || [])]
managerEntries(existing) ==
    <<commonManager>> \o (IF existing.defined THEN existing.items ELSE <<>>)

\* the entries a previous value is made of
EntryPool == { "u1", "u2", "csfIndexer" }

ApplyStaticDirs == Return("staticDirs", staticDirs(presetArgs.previous))

ApplyIndexers == Return("experimental_indexers", experimental_indexers(presetArgs.previous))

ApplyManagerEntries == Return("managerEntries", managerEntries(presetArgs.previous))

ListsInit ==
    /\ RouterIdle
    /\ ChannelIdle
    /\ \E prev \in {NoArray} \cup { Array(q) : q \in SeqsUpTo(EntryPool, MaxPrevious) } :
          presetArgs = [previous |-> prev]
    /\ presetResult = <<>>
    /\ disk = {}
    /\ faviconCall = <<>>

ListsNext == ApplyStaticDirs \/ ApplyIndexers \/ ApplyManagerEntries

SpecLists == ListsInit /\ [][ListsNext]_vars

\* the built-in entries the claim names for each list preset
BuiltIn(name) ==
    CASE name = "staticDirs" -> << "sb-common-assets" >>
      [] name = "experimental_indexers" -> << "csfIndexer" >>
      [] name = "managerEntries" -> << "common-manager" >>

\* C3: staticDirs, experimental_indexers and managerEntries return their
\* built-in entries first, then every element of the previous value in its
\* original order, none dropped or duplicated; an undefined previous value
\* gives exactly the built-in entries.
C3_DefaultsThenPrevious ==
    \A name \in DOMAIN presetResult :
        LET r == presetResult[name]
            d == BuiltIn(name)
            prev == presetArgs.previous
            n == IF prev.defined THEN Len(prev.items) ELSE 0
        IN /\ Len(r) = Len(d) + n
           /\ \A i \in 1..Len(d) : r[i] = d[i]
           /\ \A i \in 1..n : r[Len(d) + i] = prev.items[i]

\* all three presets applied to a previous value that repeats an entry and
\* holds a built-in one
C3_Witness ==
    /\ DOMAIN presetResult = {"staticDirs", "experimental_indexers", "managerEntries"}
    /\ presetArgs.previous = Array(<< "u1", "csfIndexer", "u1" >>)
    /\ presetResult["experimental_indexers"] = << "csfIndexer", "u1", "csfIndexer", "u1" >>

-----------------------------------------------------------------------------
(* common-preset.ts: favicon *)

\* require.resolve('@storybook/core-server/public/favicon.svg')
defaultFavicon == << "@storybook/core-server/public/favicon.svg" >>

FAVICON_SVG == << "f", "a", "v", "i", "c", "o", "n", ".", "s", "v", "g" >>
FAVICON_ICO == << "f", "a", "v", "i", "c", "o", "n", ".", "i", "c", "o" >>

\* An entry of the staticDirs value: a string, or an object {from, to}.
StringDir(s) == [isString |-> TRUE, str |-> s]
ObjectDir(f, t) == [isString |-> FALSE, from |-> f, to |-> t]

\* typeof dir === 'string' ? dir : `${dir.from}:${dir.to}`
DirString(dir) == IF dir.isString THEN dir.str ELSE dir.from \o <<":">> \o dir.to

\* path.isAbsolute on a POSIX path
isAbsolute(path) == Len(path) > 0 /\ path[1] = "/"

\* getDirectoryFromWorkingDir({configDir, workingDir, directory}) of
\* @storybook/core-common is not part of these sources: what it may return
\* for a directory is some path, here one under the working directory.
WorkingDirResults(directory) == { <<"/", "w", "/">> \o directory }

\* normalizedDir: what getDirectoryFromWorkingDir returns for a dir that is
\* not absolute, the dir itself otherwise
NormalizedDirs(dir) ==
    IF ~isAbsolute(dir) THEN WorkingDirResults(dir) ELSE { dir }

\* parseStaticDir of ../utils/server-statics is not part of these sources:
\* its promise rejects, or fulfils with some {staticPath, targetEndpoint}.
\* 'p' and 'p/' name one directory.
StaticPathPool == { <<"p">>, <<"p", "/">> }
ParseResults ==
    { [rejects |-> TRUE, staticPath |-> <<>>, targetEndpoint |-> <<>>],
      [rejects |-> FALSE, staticPath |-> <<"p">>, targetEndpoint |-> <<"/", "a">>] }
    \cup { [rejects |-> FALSE, staticPath |-> sp, targetEndpoint |-> <<"/">>] :
              sp \in StaticPathPool }

RECURSIVE JoinSegments(_)
\* the segments with '/' between them
JoinSegments(segs) ==
    IF segs = <<>> THEN <<>>
    ELSE IF Len(segs) = 1 THEN segs[1]
    ELSE segs[1] \o <<"/">> \o JoinSegments(Tail(segs))

RECURSIVE NormalizeSegments(_, _, _)
\* path.normalize on the '/'-separated segments: empty and '.' segments are
\* dropped, '..' removes the segment before it (and is dropped at the root)
NormalizeSegments(segs, kept, isAbs) ==
    IF segs = <<>> THEN kept
    ELSE LET seg == Head(segs) IN
         IF seg = <<>> \/ seg = <<".">>
         THEN NormalizeSegments(Tail(segs), kept, isAbs)
         ELSE IF seg = <<".", ".">>
         THEN IF Len(kept) > 0 /\ kept[Len(kept)] # <<".", ".">>
              THEN NormalizeSegments(Tail(segs), SubSeq(kept, 1, Len(kept) - 1), isAbs)
              ELSE IF isAbs
              THEN NormalizeSegments(Tail(segs), kept, isAbs)
              ELSE NormalizeSegments(Tail(segs), Append(kept, seg), isAbs)
         ELSE NormalizeSegments(Tail(segs), Append(kept, seg), isAbs)

\* path.normalize (POSIX)
normalize(path) ==
    IF Len(path) = 0 THEN <<".">>
    ELSE LET isAbs == path[1] = "/"
             trailingSeparator == path[Len(path)] = "/"
             body == JoinSegments(NormalizeSegments(split(path, "/"), <<>>, isAbs))
             dotted == IF Len(body) = 0 /\ ~isAbs THEN <<".">> ELSE body
             slashed == IF Len(dotted) > 0 /\ trailingSeparator
                        THEN dotted \o <<"/">> ELSE dotted
         IN IF isAbs THEN <<"/">> \o slashed ELSE slashed

\* path.join(staticPath, url): the non-empty arguments joined with '/', then
\* normalised
join(staticPath, url) ==
    LET joined == IF Len(staticPath) = 0 THEN url
                  ELSE IF Len(url) = 0 THEN staticPath
                  ELSE staticPath \o <<"/">> \o url
    IN IF Len(joined) = 0 THEN <<".">> ELSE normalize(joined)

\* fs-extra pathExists against the files on disk
pathExists(path, files) == path \in files

RECURSIVE Flatten(_)
\* lists.reduce((l1, l2) => l1.concat(l2), [])
Flatten(lists) ==
    IF lists = <<>> THEN <<>> ELSE Head(lists) \o Flatten(Tail(lists))

\* favicon.ico tried before favicon.svg
ProbeOrderIcoFirst == << FAVICON_ICO, FAVICON_SVG >>

\* the urls of the two `if (targetEndpoint === '/')` blocks, in code order
ProbeOrder == << FAVICON_SVG, FAVICON_ICO >>

\* the static dirs the staticDirs preset may hand to favicon
DirPool ==
    { StringDir(<<"p">>),
      ObjectDir(<<"/", "q">>, <<"/", "a">>) }

\* the favicon files that may be on disk
FilePool ==
    { <<"p", "/">> \o FAVICON_SVG,
      <<"p", "/">> \o FAVICON_ICO }

\* The call of favicon: pc is the await the function body is suspended at,
\* failed the awaited call whose rejection ended it, callbacks are the
\* invocations of the statics.map callback (each with the await it is
\* suspended at, its locals and its results).  probed and changes are
\* history: what each pathExists answered, per dir and per file
\* (1 favicon.svg, 2 favicon.ico), and how often the disk changed meanwhile.
NotProbed == << "no", "no" >>

FileIndex(url) == IF url = FAVICON_SVG THEN 1 ELSE 2

FaviconIdle ==
    [pc |-> "idle", failed |-> "none", callbacks |-> <<>>, probed |-> <<>>, changes |-> 0]

FaviconFrame == UNCHANGED <<presetArgs, routerVars, channelVars>>

\* what the caller of favicon gets: the fulfilled value or a rejection, with
\* whether the warning was logged and whether presets.apply was called
Fulfilled(result, warned, applied) ==
    [result |-> result, warned |-> warned, appliedStaticDirs |-> applied, rejected |-> FALSE]
Rejected == [result |-> <<>>, warned |-> FALSE, appliedStaticDirs |-> TRUE, rejected |-> TRUE]

\* favicon is called: a truthy value is returned at once, otherwise
\* options.presets.apply('staticDirs') is called
FaviconCalled ==
    /\ faviconCall.pc = "idle"
    /\ IF JsTruthy(presetArgs.value)
       THEN /\ Returns("favicon", Fulfilled(presetArgs.value.s, FALSE, FALSE))
            /\ faviconCall' = [faviconCall EXCEPT !.pc = "done"]
       ELSE /\ faviconCall' = [faviconCall EXCEPT !.pc = "presets.apply"]
            /\ UNCHANGED presetResult
    /\ UNCHANGED disk
    /\ FaviconFrame

\* presets.apply settles.  If it rejects, so does favicon.  With no static
\* dir the default is returned; otherwise every callback of statics.map runs
\* up to its `await parseStaticDir(normalizedDir)`
FaviconStaticDirsSettles ==
    /\ faviconCall.pc = "presets.apply"
    /\ LET staticDirsValue == presetArgs.staticDirs
           statics == IF staticDirsValue.defined
                      THEN [i \in 1..Len(staticDirsValue.items) |->
                                DirString(staticDirsValue.items[i])]
                      ELSE <<>>
       IN \/ /\ Returns("favicon", Rejected)
             /\ faviconCall' = [faviconCall EXCEPT !.pc = "done", !.failed = "presets.apply"]
          \/ /\ Len(statics) > 0
             /\ \E normalized \in [1..Len(statics) -> UNION { NormalizedDirs(statics[i]) :
                                                              i \in 1..Len(statics) }] :
                   /\ \A i \in 1..Len(statics) : normalized[i] \in NormalizedDirs(statics[i])
                   /\ faviconCall' = [faviconCall EXCEPT
                         !.pc = "Promise.all",
                         !.callbacks = [i \in 1..Len(statics) |->
                             [pc |-> "parseStaticDir",
                              normalizedDir |-> normalized[i],
                              staticPath |-> <<>>,
                              targetEndpoint |-> <<>>,
                              results |-> <<>>]],
                         !.probed = [i \in 1..Len(statics) |-> NotProbed]]
             /\ UNCHANGED presetResult
          \/ /\ Len(statics) = 0
             /\ Returns("favicon", Fulfilled(defaultFavicon, FALSE, TRUE))
             /\ faviconCall' = [faviconCall EXCEPT !.pc = "done"]
    /\ UNCHANGED disk
    /\ FaviconFrame

\* parseStaticDir settles in one callback: it rejects and so does the
\* callback; or, on endpoint '/', pathExists is called for the first url;
\* otherwise both blocks are skipped
FaviconParseSettles ==
    /\ \E i \in DOMAIN faviconCall.callbacks : \E parsed \in ParseResults :
          LET cb == faviconCall.callbacks[i]
          IN /\ cb.pc = "parseStaticDir"
             /\ faviconCall' = [faviconCall EXCEPT !.callbacks[i] =
                    IF parsed.rejects THEN [cb EXCEPT !.pc = "rejected"]
                    ELSE [cb EXCEPT !.staticPath = parsed.staticPath,
                                    !.targetEndpoint = parsed.targetEndpoint,
                                    !.pc = IF parsed.targetEndpoint = <<"/">>
                                           THEN "pathExists1" ELSE "done"]]
    /\ UNCHANGED <<presetResult, disk>>
    /\ FaviconFrame

\* one pathExists of a callback settles: the path is pushed when the file is
\* on disk at that moment; after the first block the second one calls
\* pathExists for its url
FaviconPathExistsSettles ==
    /\ \E i \in DOMAIN faviconCall.callbacks : \E n \in {1, 2} :
          LET cb == faviconCall.callbacks[i]
              url == ProbeOrder[n]
              path == join(cb.staticPath, url)
              exists == pathExists(path, disk)
          IN /\ cb.pc = (IF n = 1 THEN "pathExists1" ELSE "pathExists2")
             /\ faviconCall' = [faviconCall EXCEPT
                    !.callbacks[i] =
                        [cb EXCEPT !.results = IF exists THEN Append(@, path) ELSE @,
                                   !.pc = IF n = 1 THEN "pathExists2" ELSE "done"],
                    !.probed[i][FileIndex(url)] = IF exists THEN "hit" ELSE "miss"]
    /\ UNCHANGED <<presetResult, disk>>
    /\ FaviconFrame

\* Promise.all rejects as soon as one callback has rejected, and favicon
\* with it; the other callbacks run on
FaviconAllRejects ==
    /\ faviconCall.pc = "Promise.all"
    /\ \E i \in DOMAIN faviconCall.callbacks : faviconCall.callbacks[i].pc = "rejected"
    /\ Returns("favicon", Rejected)
    /\ faviconCall' = [faviconCall EXCEPT !.pc = "done", !.failed = "parseStaticDir"]
    /\ UNCHANGED disk
    /\ FaviconFrame

\* Promise.all fulfils once every callback has returned: the lists are
\* flattened, the warning is logged for more than one path, and the first
\* path or the default is returned
FaviconAllSettle ==
    /\ faviconCall.pc = "Promise.all"
    /\ \A i \in DOMAIN faviconCall.callbacks : faviconCall.callbacks[i].pc = "done"
    /\ LET lists == [i \in DOMAIN faviconCall.callbacks |-> faviconCall.callbacks[i].results]
           flatlist == Flatten(lists)
       IN Returns("favicon",
                  Fulfilled(IF Len(flatlist) > 0 /\ Len(flatlist[1]) > 0
                            THEN flatlist[1] ELSE defaultFavicon,
                            Len(flatlist) > 1,
                            TRUE))
    /\ faviconCall' = [faviconCall EXCEPT !.pc = "done"]
    /\ UNCHANGED disk
    /\ FaviconFrame

\* something else creates or removes a favicon file while favicon awaits
DiskChanges ==
    /\ faviconCall.pc \in {"presets.apply", "Promise.all"}
    /\ faviconCall.changes < MaxDiskChanges
    /\ \E f \in FilePool : disk' = IF f \in disk THEN disk \ {f} ELSE disk \cup {f}
    /\ faviconCall' = [faviconCall EXCEPT !.changes = @ + 1]
    /\ UNCHANGED presetResult
    /\ FaviconFrame

FaviconInit ==
    /\ RouterIdle
    /\ ChannelIdle
    /\ \E value \in { Undefined, Str(<<>>), Str(<< "m", "y", ".", "p", "n", "g" >>) } :
       \E dirs \in {NoArray} \cup { Array(q) : q \in SeqsUpTo(DirPool, MaxStaticDirs) } :
       \E files \in SUBSET FilePool :
          /\ presetArgs = [value |-> value, staticDirs |-> dirs, files |-> files]
          /\ disk = files
    /\ presetResult = <<>>
    /\ faviconCall = FaviconIdle

FaviconNext ==
    \/ FaviconCalled
    \/ FaviconStaticDirsSettles
    \/ FaviconParseSettles
    \/ FaviconPathExistsSettles
    \/ FaviconAllRejects
    \/ FaviconAllSettle
    \/ DiskChanges

SpecFavicon == FaviconInit /\ [][FaviconNext]_vars

-----------------------------------------------------------------------------
(* Claims about favicon *)

\* The candidates, in the order of the visit: position i in the staticDirs
\* value, then svg (1) before ico (2).
FaviconFile(k) ==
    IF k = 1 THEN << "f", "a", "v", "i", "c", "o", "n", ".", "s", "v", "g" >>
    ELSE << "f", "a", "v", "i", "c", "o", "n", ".", "i", "c", "o" >>

\* the directory a static path names, without '/' behind
ServedDir(sp) ==
    IF Len(sp) > 1 /\ sp[Len(sp)] = "/" THEN SubSeq(sp, 1, Len(sp) - 1) ELSE sp

\* the dir at position i was resolved and is mounted on '/'
MountedOnRoot(i) ==
    /\ i \in DOMAIN faviconCall.callbacks
    /\ faviconCall.callbacks[i].targetEndpoint = <<"/">>

CandidatePath(c) ==
    ServedDir(faviconCall.callbacks[c[1]].staticPath) \o <<"/">> \o FaviconFile(c[2])

\* the visits of candidate files that are in `files`
Candidates(files) ==
    { c \in (DOMAIN faviconCall.callbacks) \X {1, 2} :
        MountedOnRoot(c[1]) /\ CandidatePath(c) \in files }

Earlier(c, d) == c[1] < d[1] \/ (c[1] = d[1] /\ c[2] <= d[2])

NonEmptyValue == presetArgs.value.type = "string" /\ presetArgs.value.s # <<>>

\* C4 as claimed: a non-empty previous value is returned unchanged and
\* staticDirs is never consulted; otherwise the result is the first existing
\* file, visiting the static dirs in order and trying favicon.svg before
\* favicon.ico in each dir mounted on '/', or the bundled default when no
\* candidate file exists; the warning is logged exactly when more than one
\* candidate file exists.
C4_AsClaimed ==
    "favicon" \in DOMAIN presetResult =>
        LET out == presetResult["favicon"]
            existing == Candidates(disk)
        IN IF NonEmptyValue
           THEN ~out.rejected /\ out.result = presetArgs.value.s /\ ~out.appliedStaticDirs
           ELSE /\ ~out.rejected
                /\ existing = {} =>
                      out.result = << "@storybook/core-server/public/favicon.svg" >>
                /\ \A c \in existing :
                     (\A d \in existing : Earlier(c, d)) => out.result = CandidatePath(c)
                /\ out.warned <=> Cardinality({ CandidatePath(c) : c \in existing }) > 1

\* C4, amended: a non-empty previous value is returned unchanged without
\* consulting staticDirs.  Otherwise, if resolving staticDirs or a static dir
\* fails, favicon fails with it and logs no warning.  Otherwise every dir
\* mounted on '/' is tried for favicon.svg and then favicon.ico and no other
\* dir is tried; the result is the first file found, in the order of the
\* static dirs and with favicon.svg before favicon.ico, or the bundled
\* default when none is found; and the warning is logged exactly when more
\* than one file is found, a file counting once for every listed dir that
\* leads to it.  A file is found if it exists when it is tried: on a disk
\* that does not change during the call, the files found are the existing
\* candidates.
C4_FaviconPriority ==
    "favicon" \in DOMAIN presetResult =>
        LET out == presetResult["favicon"]
            dirs == IF presetArgs.staticDirs.defined THEN presetArgs.staticDirs.items ELSE <<>>
            tried == { c \in (DOMAIN faviconCall.probed) \X {1, 2} :
                          faviconCall.probed[c[1]][c[2]] # "no" }
            found == { c \in tried : faviconCall.probed[c[1]][c[2]] = "hit" }
        IN IF NonEmptyValue
           THEN /\ ~out.rejected /\ out.result = presetArgs.value.s
                /\ ~out.appliedStaticDirs /\ ~out.warned /\ tried = {}
           ELSE IF out.rejected
           THEN /\ out.appliedStaticDirs /\ ~out.warned
                /\ \/ faviconCall.failed = "presets.apply"
                   \/ \E i \in DOMAIN faviconCall.callbacks :
                         faviconCall.callbacks[i].pc = "rejected"
           ELSE /\ out.appliedStaticDirs
                /\ faviconCall.failed = "none"
                /\ Len(faviconCall.callbacks) = Len(dirs)
                /\ \A i \in DOMAIN faviconCall.callbacks : faviconCall.callbacks[i].pc = "done"
                /\ tried = { c \in (1..Len(dirs)) \X {1, 2} : MountedOnRoot(c[1]) }
                /\ found = {} =>
                      out.result = << "@storybook/core-server/public/favicon.svg" >>
                /\ \A c \in found :
                     (\A d \in found : Earlier(c, d)) => out.result = CandidatePath(c)
                /\ out.warned <=> Cardinality(found) > 1
                /\ faviconCall.changes = 0 => found = Candidates(presetArgs.files)

\* no previous value and a disk left alone that holds p/favicon.svg only;
\* both static dirs lead to the directory p, as 'p/' and as 'p', mounted on
\* '/': the one file is found twice and the warning is logged
C4_Witness ==
    /\ "favicon" \in DOMAIN presetResult
    /\ ~JsTruthy(presetArgs.value)
    /\ ~presetResult["favicon"].rejected
    /\ presetArgs.files =
          { << "p", "/", "f", "a", "v", "i", "c", "o", "n", ".", "s", "v", "g" >> }
    /\ faviconCall.changes = 0
    /\ Len(faviconCall.callbacks) = 2
    /\ faviconCall.callbacks[1].staticPath = << "p", "/" >>
    /\ faviconCall.callbacks[2].staticPath = << "p" >>
    /\ \A i \in {1, 2} : faviconCall.callbacks[i].targetEndpoint = << "/" >>
    /\ presetResult["favicon"].result =
          << "p", "/", "f", "a", "v", "i", "c", "o", "n", ".", "s", "v", "g" >>
    /\ presetResult["favicon"].warned

-----------------------------------------------------------------------------
(* common-preset.ts: core *)

LowerCase == << "a", "b", "c", "d", "e", "f", "g", "h", "i", "j", "k", "l", "m",
                "n", "o", "p", "q", "r", "s", "t", "u", "v", "w", "x", "y", "z" >>
UpperCase == << "A", "B", "C", "D", "E", "F", "G", "H", "I", "J", "K", "L", "M",
                "N", "O", "P", "Q", "R", "S", "T", "U", "V", "W", "X", "Y", "Z" >>

\* A character outside ASCII is named by its code point, "U+" and four to six
\* hexadecimal digits: LATIN SMALL LETTER LONG S, LATIN SMALL LETTER SHARP S.
LONG_S == "U+017F"
SHARP_S == "U+00DF"

\* The upper-case mapping of the Unicode Character Database (UnicodeData.txt
\* and the unconditional entries of SpecialCasing.txt, version 17.0) for the
\* characters outside ASCII: the character, then its upper case.
UnicodeUpper ==
    <<
       << "U+00B5", << "U+039C" >> >>, << "U+00DF", << "S", "S" >> >>, << "U+00E0", << "U+00C0" >> >>,
       << "U+00E1", << "U+00C1" >> >>, << "U+00E2", << "U+00C2" >> >>, << "U+00E3", << "U+00C3" >> >>,
       << "U+00E4", << "U+00C4" >> >>, << "U+00E5", << "U+00C5" >> >>, << "U+00E6", << "U+00C6" >> >>,
       << "U+00E7", << "U+00C7" >> >>, << "U+00E8", << "U+00C8" >> >>, << "U+00E9", << "U+00C9" >> >>,
       << "U+00EA", << "U+00CA" >> >>, << "U+00EB", << "U+00CB" >> >>, << "U+00EC", << "U+00CC" >> >>,
       << "U+00ED", << "U+00CD" >> >>, << "U+00EE", << "U+00CE" >> >>, << "U+00EF", << "U+00CF" >> >>,
       << "U+00F0", << "U+00D0" >> >>, << "U+00F1", << "U+00D1" >> >>, << "U+00F2", << "U+00D2" >> >>,
       << "U+00F3", << "U+00D3" >> >>, << "U+00F4", << "U+00D4" >> >>, << "U+00F5", << "U+00D5" >> >>,
       << "U+00F6", << "U+00D6" >> >>, << "U+00F8", << "U+00D8" >> >>, << "U+00F9", << "U+00D9" >> >>,
       << "U+00FA", << "U+00DA" >> >>, << "U+00FB", << "U+00DB" >> >>, << "U+00FC", << "U+00DC" >> >>,
       << "U+00FD", << "U+00DD" >> >>, << "U+00FE", << "U+00DE" >> >>, << "U+00FF", << "U+0178" >> >>,
       << "U+0101", << "U+0100" >> >>, << "U+0103", << "U+0102" >> >>, << "U+0105", << "U+0104" >> >>,
       << "U+0107", << "U+0106" >> >>, << "U+0109", << "U+0108" >> >>, << "U+010B", << "U+010A" >> >>,
       << "U+010D", << "U+010C" >> >>, << "U+010F", << "U+010E" >> >>, << "U+0111", << "U+0110" >> >>,
       << "U+0113", << "U+0112" >> >>, << "U+0115", << "U+0114" >> >>, << "U+0117", << "U+0116" >> >>,
       << "U+0119", << "U+0118" >> >>, << "U+011B", << "U+011A" >> >>, << "U+011D", << "U+011C" >> >>,
       << "U+011F", << "U+011E" >> >>, << "U+0121", << "U+0120" >> >>, << "U+0123", << "U+0122" >> >>,
       << "U+0125", << "U+0124" >> >>, << "U+0127", << "U+0126" >> >>, << "U+0129", << "U+0128" >> >>,
       << "U+012B", << "U+012A" >> >>, << "U+012D", << "U+012C" >> >>, << "U+012F", << "U+012E" >> >>,
       << "U+0131", << "I" >> >>, << "U+0133", << "U+0132" >> >>, << "U+0135", << "U+0134" >> >>,
       << "U+0137", << "U+0136" >> >>, << "U+013A", << "U+0139" >> >>, << "U+013C", << "U+013B" >> >>,
       << "U+013E", << "U+013D" >> >>, << "U+0140", << "U+013F" >> >>, << "U+0142", << "U+0141" >> >>,
       << "U+0144", << "U+0143" >> >>, << "U+0146", << "U+0145" >> >>, << "U+0148", << "U+0147" >> >>,
       << "U+0149", << "U+02BC", "N" >> >>, << "U+014B", << "U+014A" >> >>, << "U+014D", << "U+014C" >> >>,
       << "U+014F", << "U+014E" >> >>, << "U+0151", << "U+0150" >> >>, << "U+0153", << "U+0152" >> >>,
       << "U+0155", << "U+0154" >> >>, << "U+0157", << "U+0156" >> >>, << "U+0159", << "U+0158" >> >>,
       << "U+015B", << "U+015A" >> >>, << "U+015D", << "U+015C" >> >>, << "U+015F", << "U+015E" >> >>,
       << "U+0161", << "U+0160" >> >>, << "U+0163", << "U+0162" >> >>, << "U+0165", << "U+0164" >> >>,
       << "U+0167", << "U+0166" >> >>, << "U+0169", << "U+0168" >> >>, << "U+016B", << "U+016A" >> >>,
       << "U+016D", << "U+016C" >> >>, << "U+016F", << "U+016E" >> >>, << "U+0171", << "U+0170" >> >>,
       << "U+0173", << "U+0172" >> >>, << "U+0175", << "U+0174" >> >>, << "U+0177", << "U+0176" >> >>,
       << "U+017A", << "U+0179" >> >>, << "U+017C", << "U+017B" >> >>, << "U+017E", << "U+017D" >> >>,
       << "U+017F", << "S" >> >>, << "U+0180", << "U+0243" >> >>, << "U+0183", << "U+0182" >> >>,
       << "U+0185", << "U+0184" >> >>, << "U+0188", << "U+0187" >> >>, << "U+018C", << "U+018B" >> >>,
       << "U+0192", << "U+0191" >> >>, << "U+0195", << "U+01F6" >> >>, << "U+0199", << "U+0198" >> >>,
       << "U+019A", << "U+023D" >> >>, << "U+019B", << "U+A7DC" >> >>, << "U+019E", << "U+0220" >> >>,
       << "U+01A1", << "U+01A0" >> >>, << "U+01A3", << "U+01A2" >> >>, << "U+01A5", << "U+01A4" >> >>,
       << "U+01A8", << "U+01A7" >> >>, << "U+01AD", << "U+01AC" >> >>, << "U+01B0", << "U+01AF" >> >>,
       << "U+01B4", << "U+01B3" >> >>, << "U+01B6", << "U+01B5" >> >>, << "U+01B9", << "U+01B8" >> >>,
       << "U+01BD", << "U+01BC" >> >>, << "U+01BF", << "U+01F7" >> >>, << "U+01C5", << "U+01C4" >> >>,
       << "U+01C6", << "U+01C4" >> >>, << "U+01C8", << "U+01C7" >> >>, << "U+01C9", << "U+01C7" >> >>,
       << "U+01CB", << "U+01CA" >> >>, << "U+01CC", << "U+01CA" >> >>, << "U+01CE", << "U+01CD" >> >>,
       << "U+01D0", << "U+01CF" >> >>, << "U+01D2", << "U+01D1" >> >>, << "U+01D4", << "U+01D3" >> >>,
       << "U+01D6", << "U+01D5" >> >>, << "U+01D8", << "U+01D7" >> >>, << "U+01DA", << "U+01D9" >> >>,
       << "U+01DC", << "U+01DB" >> >>, << "U+01DD", << "U+018E" >> >>, << "U+01DF", << "U+01DE" >> >>,
       << "U+01E1", << "U+01E0" >> >>, << "U+01E3", << "U+01E2" >> >>, << "U+01E5", << "U+01E4" >> >>,
       << "U+01E7", << "U+01E6" >> >>, << "U+01E9", << "U+01E8" >> >>, << "U+01EB", << "U+01EA" >> >>,
       << "U+01ED", << "U+01EC" >> >>, << "U+01EF", << "U+01EE" >> >>, << "U+01F0", << "J", "U+030C" >> >>,
       << "U+01F2", << "U+01F1" >> >>, << "U+01F3", << "U+01F1" >> >>, << "U+01F5", << "U+01F4" >> >>,
       << "U+01F9", << "U+01F8" >> >>, << "U+01FB", << "U+01FA" >> >>, << "U+01FD", << "U+01FC" >> >>,
       << "U+01FF", << "U+01FE" >> >>, << "U+0201", << "U+0200" >> >>, << "U+0203", << "U+0202" >> >>,
       << "U+0205", << "U+0204" >> >>, << "U+0207", << "U+0206" >> >>, << "U+0209", << "U+0208" >> >>,
       << "U+020B", << "U+020A" >> >>, << "U+020D", << "U+020C" >> >>, << "U+020F", << "U+020E" >> >>,
       << "U+0211", << "U+0210" >> >>, << "U+0213", << "U+0212" >> >>, << "U+0215", << "U+0214" >> >>,
       << "U+0217", << "U+0216" >> >>, << "U+0219", << "U+0218" >> >>, << "U+021B", << "U+021A" >> >>,
       << "U+021D", << "U+021C" >> >>, << "U+021F", << "U+021E" >> >>, << "U+0223", << "U+0222" >> >>,
       << "U+0225", << "U+0224" >> >>, << "U+0227", << "U+0226" >> >>, << "U+0229", << "U+0228" >> >>,
       << "U+022B", << "U+022A" >> >>, << "U+022D", << "U+022C" >> >>, << "U+022F", << "U+022E" >> >>,
       << "U+0231", << "U+0230" >> >>, << "U+0233", << "U+0232" >> >>, << "U+023C", << "U+023B" >> >>,
       << "U+023F", << "U+2C7E" >> >>, << "U+0240", << "U+2C7F" >> >>, << "U+0242", << "U+0241" >> >>,
       << "U+0247", << "U+0246" >> >>, << "U+0249", << "U+0248" >> >>, << "U+024B", << "U+024A" >> >>,
       << "U+024D", << "U+024C" >> >>, << "U+024F", << "U+024E" >> >>, << "U+0250", << "U+2C6F" >> >>,
       << "U+0251", << "U+2C6D" >> >>, << "U+0252", << "U+2C70" >> >>, << "U+0253", << "U+0181" >> >>,
       << "U+0254", << "U+0186" >> >>, << "U+0256", << "U+0189" >> >>, << "U+0257", << "U+018A" >> >>,
       << "U+0259", << "U+018F" >> >>, << "U+025B", << "U+0190" >> >>, << "U+025C", << "U+A7AB" >> >>,
       << "U+0260", << "U+0193" >> >>, << "U+0261", << "U+A7AC" >> >>, << "U+0263", << "U+0194" >> >>,
       << "U+0264", << "U+A7CB" >> >>, << "U+0265", << "U+A78D" >> >>, << "U+0266", << "U+A7AA" >> >>,
       << "U+0268", << "U+0197" >> >>, << "U+0269", << "U+0196" >> >>, << "U+026A", << "U+A7AE" >> >>,
       << "U+026B", << "U+2C62" >> >>, << "U+026C", << "U+A7AD" >> >>, << "U+026F", << "U+019C" >> >>,
       << "U+0271", << "U+2C6E" >> >>, << "U+0272", << "U+019D" >> >>, << "U+0275", << "U+019F" >> >>,
       << "U+027D", << "U+2C64" >> >>, << "U+0280", << "U+01A6" >> >>, << "U+0282", << "U+A7C5" >> >>,
       << "U+0283", << "U+01A9" >> >>, << "U+0287", << "U+A7B1" >> >>, << "U+0288", << "U+01AE" >> >>,
       << "U+0289", << "U+0244" >> >>, << "U+028A", << "U+01B1" >> >>, << "U+028B", << "U+01B2" >> >>,
       << "U+028C", << "U+0245" >> >>, << "U+0292", << "U+01B7" >> >>, << "U+029D", << "U+A7B2" >> >>,
       << "U+029E", << "U+A7B0" >> >>, << "U+0345", << "U+0399" >> >>, << "U+0371", << "U+0370" >> >>,
       << "U+0373", << "U+0372" >> >>, << "U+0377", << "U+0376" >> >>, << "U+037B", << "U+03FD" >> >>,
       << "U+037C", << "U+03FE" >> >>, << "U+037D", << "U+03FF" >> >>, << "U+0390", << "U+0399", "U+0308", "U+0301" >> >>,
       << "U+03AC", << "U+0386" >> >>, << "U+03AD", << "U+0388" >> >>, << "U+03AE", << "U+0389" >> >>,
       << "U+03AF", << "U+038A" >> >>, << "U+03B0", << "U+03A5", "U+0308", "U+0301" >> >>, << "U+03B1", << "U+0391" >> >>,
       << "U+03B2", << "U+0392" >> >>, << "U+03B3", << "U+0393" >> >>, << "U+03B4", << "U+0394" >> >>,
       << "U+03B5", << "U+0395" >> >>, << "U+03B6", << "U+0396" >> >>, << "U+03B7", << "U+0397" >> >>,
       << "U+03B8", << "U+0398" >> >>, << "U+03B9", << "U+0399" >> >>, << "U+03BA", << "U+039A" >> >>,
       << "U+03BB", << "U+039B" >> >>, << "U+03BC", << "U+039C" >> >>, << "U+03BD", << "U+039D" >> >>,
       << "U+03BE", << "U+039E" >> >>, << "U+03BF", << "U+039F" >> >>, << "U+03C0", << "U+03A0" >> >>,
       << "U+03C1", << "U+03A1" >> >>, << "U+03C2", << "U+03A3" >> >>, << "U+03C3", << "U+03A3" >> >>,
       << "U+03C4", << "U+03A4" >> >>, << "U+03C5", << "U+03A5" >> >>, << "U+03C6", << "U+03A6" >> >>,
       << "U+03C7", << "U+03A7" >> >>, << "U+03C8", << "U+03A8" >> >>, << "U+03C9", << "U+03A9" >> >>,
       << "U+03CA", << "U+03AA" >> >>, << "U+03CB", << "U+03AB" >> >>, << "U+03CC", << "U+038C" >> >>,
       << "U+03CD", << "U+038E" >> >>, << "U+03CE", << "U+038F" >> >>, << "U+03D0", << "U+0392" >> >>,
       << "U+03D1", << "U+0398" >> >>, << "U+03D5", << "U+03A6" >> >>, << "U+03D6", << "U+03A0" >> >>,
       << "U+03D7", << "U+03CF" >> >>, << "U+03D9", << "U+03D8" >> >>, << "U+03DB", << "U+03DA" >> >>,
       << "U+03DD", << "U+03DC" >> >>, << "U+03DF", << "U+03DE" >> >>, << "U+03E1", << "U+03E0" >> >>,
       << "U+03E3", << "U+03E2" >> >>, << "U+03E5", << "U+03E4" >> >>, << "U+03E7", << "U+03E6" >> >>,
       << "U+03E9", << "U+03E8" >> >>, << "U+03EB", << "U+03EA" >> >>, << "U+03ED", << "U+03EC" >> >>,
       << "U+03EF", << "U+03EE" >> >>, << "U+03F0", << "U+039A" >> >>, << "U+03F1", << "U+03A1" >> >>,
       << "U+03F2", << "U+03F9" >> >>, << "U+03F3", << "U+037F" >> >>, << "U+03F5", << "U+0395" >> >>,
       << "U+03F8", << "U+03F7" >> >>, << "U+03FB", << "U+03FA" >> >>, << "U+0430", << "U+0410" >> >>,
       << "U+0431", << "U+0411" >> >>, << "U+0432", << "U+0412" >> >>, << "U+0433", << "U+0413" >> >>,
       << "U+0434", << "U+0414" >> >>, << "U+0435", << "U+0415" >> >>, << "U+0436", << "U+0416" >> >>,
       << "U+0437", << "U+0417" >> >>, << "U+0438", << "U+0418" >> >>, << "U+0439", << "U+0419" >> >>,
       << "U+043A", << "U+041A" >> >>, << "U+043B", << "U+041B" >> >>, << "U+043C", << "U+041C" >> >>,
       << "U+043D", << "U+041D" >> >>, << "U+043E", << "U+041E" >> >>, << "U+043F", << "U+041F" >> >>,
       << "U+0440", << "U+0420" >> >>, << "U+0441", << "U+0421" >> >>, << "U+0442", << "U+0422" >> >>,
       << "U+0443", << "U+0423" >> >>, << "U+0444", << "U+0424" >> >>, << "U+0445", << "U+0425" >> >>,
       << "U+0446", << "U+0426" >> >>, << "U+0447", << "U+0427" >> >>, << "U+0448", << "U+0428" >> >>,
       << "U+0449", << "U+0429" >> >>, << "U+044A", << "U+042A" >> >>, << "U+044B", << "U+042B" >> >>,
       << "U+044C", << "U+042C" >> >>, << "U+044D", << "U+042D" >> >>, << "U+044E", << "U+042E" >> >>,
       << "U+044F", << "U+042F" >> >>, << "U+0450", << "U+0400" >> >>, << "U+0451", << "U+0401" >> >>,
       << "U+0452", << "U+0402" >> >>, << "U+0453", << "U+0403" >> >>, << "U+0454", << "U+0404" >> >>,
       << "U+0455", << "U+0405" >> >>, << "U+0456", << "U+0406" >> >>, << "U+0457", << "U+0407" >> >>,
       << "U+0458", << "U+0408" >> >>, << "U+0459", << "U+0409" >> >>, << "U+045A", << "U+040A" >> >>,
       << "U+045B", << "U+040B" >> >>, << "U+045C", << "U+040C" >> >>, << "U+045D", << "U+040D" >> >>,
       << "U+045E", << "U+040E" >> >>, << "U+045F", << "U+040F" >> >>, << "U+0461", << "U+0460" >> >>,
       << "U+0463", << "U+0462" >> >>, << "U+0465", << "U+0464" >> >>, << "U+0467", << "U+0466" >> >>,
       << "U+0469", << "U+0468" >> >>, << "U+046B", << "U+046A" >> >>, << "U+046D", << "U+046C" >> >>,
       << "U+046F", << "U+046E" >> >>, << "U+0471", << "U+0470" >> >>, << "U+0473", << "U+0472" >> >>,
       << "U+0475", << "U+0474" >> >>, << "U+0477", << "U+0476" >> >>, << "U+0479", << "U+0478" >> >>,
       << "U+047B", << "U+047A" >> >>, << "U+047D", << "U+047C" >> >>, << "U+047F", << "U+047E" >> >>,
       << "U+0481", << "U+0480" >> >>, << "U+048B", << "U+048A" >> >>, << "U+048D", << "U+048C" >> >>,
       << "U+048F", << "U+048E" >> >>, << "U+0491", << "U+0490" >> >>, << "U+0493", << "U+0492" >> >>,
       << "U+0495", << "U+0494" >> >>, << "U+0497", << "U+0496" >> >>, << "U+0499", << "U+0498" >> >>,
       << "U+049B", << "U+049A" >> >>, << "U+049D", << "U+049C" >> >>, << "U+049F", << "U+049E" >> >>,
       << "U+04A1", << "U+04A0" >> >>, << "U+04A3", << "U+04A2" >> >>, << "U+04A5", << "U+04A4" >> >>,
       << "U+04A7", << "U+04A6" >> >>, << "U+04A9", << "U+04A8" >> >>, << "U+04AB", << "U+04AA" >> >>,
       << "U+04AD", << "U+04AC" >> >>, << "U+04AF", << "U+04AE" >> >>, << "U+04B1", << "U+04B0" >> >>,
       << "U+04B3", << "U+04B2" >> >>, << "U+04B5", << "U+04B4" >> >>, << "U+04B7", << "U+04B6" >> >>,
       << "U+04B9", << "U+04B8" >> >>, << "U+04BB", << "U+04BA" >> >>, << "U+04BD", << "U+04BC" >> >>,
       << "U+04BF", << "U+04BE" >> >>, << "U+04C2", << "U+04C1" >> >>, << "U+04C4", << "U+04C3" >> >>,
       << "U+04C6", << "U+04C5" >> >>, << "U+04C8", << "U+04C7" >> >>, << "U+04CA", << "U+04C9" >> >>,
       << "U+04CC", << "U+04CB" >> >>, << "U+04CE", << "U+04CD" >> >>, << "U+04CF", << "U+04C0" >> >>,
       << "U+04D1", << "U+04D0" >> >>, << "U+04D3", << "U+04D2" >> >>, << "U+04D5", << "U+04D4" >> >>,
       << "U+04D7", << "U+04D6" >> >>, << "U+04D9", << "U+04D8" >> >>, << "U+04DB", << "U+04DA" >> >>,
       << "U+04DD", << "U+04DC" >> >>, << "U+04DF", << "U+04DE" >> >>, << "U+04E1", << "U+04E0" >> >>,
       << "U+04E3", << "U+04E2" >> >>, << "U+04E5", << "U+04E4" >> >>, << "U+04E7", << "U+04E6" >> >>,
       << "U+04E9", << "U+04E8" >> >>, << "U+04EB", << "U+04EA" >> >>, << "U+04ED", << "U+04EC" >> >>,
       << "U+04EF", << "U+04EE" >> >>, << "U+04F1", << "U+04F0" >> >>, << "U+04F3", << "U+04F2" >> >>,
       << "U+04F5", << "U+04F4" >> >>, << "U+04F7", << "U+04F6" >> >>, << "U+04F9", << "U+04F8" >> >>,
       << "U+04FB", << "U+04FA" >> >>, << "U+04FD", << "U+04FC" >> >>, << "U+04FF", << "U+04FE" >> >>,
       << "U+0501", << "U+0500" >> >>, << "U+0503", << "U+0502" >> >>, << "U+0505", << "U+0504" >> >>,
       << "U+0507", << "U+0506" >> >>, << "U+0509", << "U+0508" >> >>, << "U+050B", << "U+050A" >> >>,
       << "U+050D", << "U+050C" >> >>, << "U+050F", << "U+050E" >> >>, << "U+0511", << "U+0510" >> >>,
       << "U+0513", << "U+0512" >> >>, << "U+0515", << "U+0514" >> >>, << "U+0517", << "U+0516" >> >>,
       << "U+0519", << "U+0518" >> >>, << "U+051B", << "U+051A" >> >>, << "U+051D", << "U+051C" >> >>,
       << "U+051F", << "U+051E" >> >>, << "U+0521", << "U+0520" >> >>, << "U+0523", << "U+0522" >> >>,
       << "U+0525", << "U+0524" >> >>, << "U+0527", << "U+0526" >> >>, << "U+0529", << "U+0528" >> >>,
       << "U+052B", << "U+052A" >> >>, << "U+052D", << "U+052C" >> >>, << "U+052F", << "U+052E" >> >>,
       << "U+0561", << "U+0531" >> >>, << "U+0562", << "U+0532" >> >>, << "U+0563", << "U+0533" >> >>,
       << "U+0564", << "U+0534" >> >>, << "U+0565", << "U+0535" >> >>, << "U+0566", << "U+0536" >> >>,
       << "U+0567", << "U+0537" >> >>, << "U+0568", << "U+0538" >> >>, << "U+0569", << "U+0539" >> >>,
       << "U+056A", << "U+053A" >> >>, << "U+056B", << "U+053B" >> >>, << "U+056C", << "U+053C" >> >>,
       << "U+056D", << "U+053D" >> >>, << "U+056E", << "U+053E" >> >>, << "U+056F", << "U+053F" >> >>,
       << "U+0570", << "U+0540" >> >>, << "U+0571", << "U+0541" >> >>, << "U+0572", << "U+0542" >> >>,
       << "U+0573", << "U+0543" >> >>, << "U+0574", << "U+0544" >> >>, << "U+0575", << "U+0545" >> >>,
       << "U+0576", << "U+0546" >> >>, << "U+0577", << "U+0547" >> >>, << "U+0578", << "U+0548" >> >>,
       << "U+0579", << "U+0549" >> >>, << "U+057A", << "U+054A" >> >>, << "U+057B", << "U+054B" >> >>,
       << "U+057C", << "U+054C" >> >>, << "U+057D", << "U+054D" >> >>, << "U+057E", << "U+054E" >> >>,
       << "U+057F", << "U+054F" >> >>, << "U+0580", << "U+0550" >> >>, << "U+0581", << "U+0551" >> >>,
       << "U+0582", << "U+0552" >> >>, << "U+0583", << "U+0553" >> >>, << "U+0584", << "U+0554" >> >>,
       << "U+0585", << "U+0555" >> >>, << "U+0586", << "U+0556" >> >>, << "U+0587", << "U+0535", "U+0552" >> >>,
       << "U+10D0", << "U+1C90" >> >>, << "U+10D1", << "U+1C91" >> >>, << "U+10D2", << "U+1C92" >> >>,
       << "U+10D3", << "U+1C93" >> >>, << "U+10D4", << "U+1C94" >> >>, << "U+10D5", << "U+1C95" >> >>,
       << "U+10D6", << "U+1C96" >> >>, << "U+10D7", << "U+1C97" >> >>, << "U+10D8", << "U+1C98" >> >>,
       << "U+10D9", << "U+1C99" >> >>, << "U+10DA", << "U+1C9A" >> >>, << "U+10DB", << "U+1C9B" >> >>,
       << "U+10DC", << "U+1C9C" >> >>, << "U+10DD", << "U+1C9D" >> >>, << "U+10DE", << "U+1C9E" >> >>,
       << "U+10DF", << "U+1C9F" >> >>, << "U+10E0", << "U+1CA0" >> >>, << "U+10E1", << "U+1CA1" >> >>,
       << "U+10E2", << "U+1CA2" >> >>, << "U+10E3", << "U+1CA3" >> >>, << "U+10E4", << "U+1CA4" >> >>,
       << "U+10E5", << "U+1CA5" >> >>, << "U+10E6", << "U+1CA6" >> >>, << "U+10E7", << "U+1CA7" >> >>,
       << "U+10E8", << "U+1CA8" >> >>, << "U+10E9", << "U+1CA9" >> >>, << "U+10EA", << "U+1CAA" >> >>,
       << "U+10EB", << "U+1CAB" >> >>, << "U+10EC", << "U+1CAC" >> >>, << "U+10ED", << "U+1CAD" >> >>,
       << "U+10EE", << "U+1CAE" >> >>, << "U+10EF", << "U+1CAF" >> >>, << "U+10F0", << "U+1CB0" >> >>,
       << "U+10F1", << "U+1CB1" >> >>, << "U+10F2", << "U+1CB2" >> >>, << "U+10F3", << "U+1CB3" >> >>,
       << "U+10F4", << "U+1CB4" >> >>, << "U+10F5", << "U+1CB5" >> >>, << "U+10F6", << "U+1CB6" >> >>,
       << "U+10F7", << "U+1CB7" >> >>, << "U+10F8", << "U+1CB8" >> >>, << "U+10F9", << "U+1CB9" >> >>,
       << "U+10FA", << "U+1CBA" >> >>, << "U+10FD", << "U+1CBD" >> >>, << "U+10FE", << "U+1CBE" >> >>,
       << "U+10FF", << "U+1CBF" >> >>, << "U+13F8", << "U+13F0" >> >>, << "U+13F9", << "U+13F1" >> >>,
       << "U+13FA", << "U+13F2" >> >>, << "U+13FB", << "U+13F3" >> >>, << "U+13FC", << "U+13F4" >> >>,
       << "U+13FD", << "U+13F5" >> >>, << "U+1C80", << "U+0412" >> >>, << "U+1C81", << "U+0414" >> >>,
       << "U+1C82", << "U+041E" >> >>, << "U+1C83", << "U+0421" >> >>, << "U+1C84", << "U+0422" >> >>,
       << "U+1C85", << "U+0422" >> >>, << "U+1C86", << "U+042A" >> >>, << "U+1C87", << "U+0462" >> >>,
       << "U+1C88", << "U+A64A" >> >>, << "U+1C8A", << "U+1C89" >> >>, << "U+1D79", << "U+A77D" >> >>,
       << "U+1D7D", << "U+2C63" >> >>, << "U+1D8E", << "U+A7C6" >> >>, << "U+1E01", << "U+1E00" >> >>,
       << "U+1E03", << "U+1E02" >> >>, << "U+1E05", << "U+1E04" >> >>, << "U+1E07", << "U+1E06" >> >>,
       << "U+1E09", << "U+1E08" >> >>, << "U+1E0B", << "U+1E0A" >> >>, << "U+1E0D", << "U+1E0C" >> >>,
       << "U+1E0F", << "U+1E0E" >> >>, << "U+1E11", << "U+1E10" >> >>, << "U+1E13", << "U+1E12" >> >>,
       << "U+1E15", << "U+1E14" >> >>, << "U+1E17", << "U+1E16" >> >>, << "U+1E19", << "U+1E18" >> >>,
       << "U+1E1B", << "U+1E1A" >> >>, << "U+1E1D", << "U+1E1C" >> >>, << "U+1E1F", << "U+1E1E" >> >>,
       << "U+1E21", << "U+1E20" >> >>, << "U+1E23", << "U+1E22" >> >>, << "U+1E25", << "U+1E24" >> >>,
       << "U+1E27", << "U+1E26" >> >>, << "U+1E29", << "U+1E28" >> >>, << "U+1E2B", << "U+1E2A" >> >>,
       << "U+1E2D", << "U+1E2C" >> >>, << "U+1E2F", << "U+1E2E" >> >>, << "U+1E31", << "U+1E30" >> >>,
       << "U+1E33", << "U+1E32" >> >>, << "U+1E35", << "U+1E34" >> >>, << "U+1E37", << "U+1E36" >> >>,
       << "U+1E39", << "U+1E38" >> >>, << "U+1E3B", << "U+1E3A" >> >>, << "U+1E3D", << "U+1E3C" >> >>,
       << "U+1E3F", << "U+1E3E" >> >>, << "U+1E41", << "U+1E40" >> >>, << "U+1E43", << "U+1E42" >> >>,
       << "U+1E45", << "U+1E44" >> >>, << "U+1E47", << "U+1E46" >> >>, << "U+1E49", << "U+1E48" >> >>,
       << "U+1E4B", << "U+1E4A" >> >>, << "U+1E4D", << "U+1E4C" >> >>, << "U+1E4F", << "U+1E4E" >> >>,
       << "U+1E51", << "U+1E50" >> >>, << "U+1E53", << "U+1E52" >> >>, << "U+1E55", << "U+1E54" >> >>,
       << "U+1E57", << "U+1E56" >> >>, << "U+1E59", << "U+1E58" >> >>, << "U+1E5B", << "U+1E5A" >> >>,
       << "U+1E5D", << "U+1E5C" >> >>, << "U+1E5F", << "U+1E5E" >> >>, << "U+1E61", << "U+1E60" >> >>,
       << "U+1E63", << "U+1E62" >> >>, << "U+1E65", << "U+1E64" >> >>, << "U+1E67", << "U+1E66" >> >>,
       << "U+1E69", << "U+1E68" >> >>, << "U+1E6B", << "U+1E6A" >> >>, << "U+1E6D", << "U+1E6C" >> >>,
       << "U+1E6F", << "U+1E6E" >> >>, << "U+1E71", << "U+1E70" >> >>, << "U+1E73", << "U+1E72" >> >>,
       << "U+1E75", << "U+1E74" >> >>, << "U+1E77", << "U+1E76" >> >>, << "U+1E79", << "U+1E78" >> >>,
       << "U+1E7B", << "U+1E7A" >> >>, << "U+1E7D", << "U+1E7C" >> >>, << "U+1E7F", << "U+1E7E" >> >>,
       << "U+1E81", << "U+1E80" >> >>, << "U+1E83", << "U+1E82" >> >>, << "U+1E85", << "U+1E84" >> >>,
       << "U+1E87", << "U+1E86" >> >>, << "U+1E89", << "U+1E88" >> >>, << "U+1E8B", << "U+1E8A" >> >>,
       << "U+1E8D", << "U+1E8C" >> >>, << "U+1E8F", << "U+1E8E" >> >>, << "U+1E91", << "U+1E90" >> >>,
       << "U+1E93", << "U+1E92" >> >>, << "U+1E95", << "U+1E94" >> >>, << "U+1E96", << "H", "U+0331" >> >>,
       << "U+1E97", << "T", "U+0308" >> >>, << "U+1E98", << "W", "U+030A" >> >>, << "U+1E99", << "Y", "U+030A" >> >>,
       << "U+1E9A", << "A", "U+02BE" >> >>, << "U+1E9B", << "U+1E60" >> >>, << "U+1EA1", << "U+1EA0" >> >>,
       << "U+1EA3", << "U+1EA2" >> >>, << "U+1EA5", << "U+1EA4" >> >>, << "U+1EA7", << "U+1EA6" >> >>,
       << "U+1EA9", << "U+1EA8" >> >>, << "U+1EAB", << "U+1EAA" >> >>, << "U+1EAD", << "U+1EAC" >> >>,
       << "U+1EAF", << "U+1EAE" >> >>, << "U+1EB1", << "U+1EB0" >> >>, << "U+1EB3", << "U+1EB2" >> >>,
       << "U+1EB5", << "U+1EB4" >> >>, << "U+1EB7", << "U+1EB6" >> >>, << "U+1EB9", << "U+1EB8" >> >>,
       << "U+1EBB", << "U+1EBA" >> >>, << "U+1EBD", << "U+1EBC" >> >>, << "U+1EBF", << "U+1EBE" >> >>,
       << "U+1EC1", << "U+1EC0" >> >>, << "U+1EC3", << "U+1EC2" >> >>, << "U+1EC5", << "U+1EC4" >> >>,
       << "U+1EC7", << "U+1EC6" >> >>, << "U+1EC9", << "U+1EC8" >> >>, << "U+1ECB", << "U+1ECA" >> >>,
       << "U+1ECD", << "U+1ECC" >> >>, << "U+1ECF", << "U+1ECE" >> >>, << "U+1ED1", << "U+1ED0" >> >>,
       << "U+1ED3", << "U+1ED2" >> >>, << "U+1ED5", << "U+1ED4" >> >>, << "U+1ED7", << "U+1ED6" >> >>,
       << "U+1ED9", << "U+1ED8" >> >>, << "U+1EDB", << "U+1EDA" >> >>, << "U+1EDD", << "U+1EDC" >> >>,
       << "U+1EDF", << "U+1EDE" >> >>, << "U+1EE1", << "U+1EE0" >> >>, << "U+1EE3", << "U+1EE2" >> >>,
       << "U+1EE5", << "U+1EE4" >> >>, << "U+1EE7", << "U+1EE6" >> >>, << "U+1EE9", << "U+1EE8" >> >>,
       << "U+1EEB", << "U+1EEA" >> >>, << "U+1EED", << "U+1EEC" >> >>, << "U+1EEF", << "U+1EEE" >> >>,
       << "U+1EF1", << "U+1EF0" >> >>, << "U+1EF3", << "U+1EF2" >> >>, << "U+1EF5", << "U+1EF4" >> >>,
       << "U+1EF7", << "U+1EF6" >> >>, << "U+1EF9", << "U+1EF8" >> >>, << "U+1EFB", << "U+1EFA" >> >>,
       << "U+1EFD", << "U+1EFC" >> >>, << "U+1EFF", << "U+1EFE" >> >>, << "U+1F00", << "U+1F08" >> >>,
       << "U+1F01", << "U+1F09" >> >>, << "U+1F02", << "U+1F0A" >> >>, << "U+1F03", << "U+1F0B" >> >>,
       << "U+1F04", << "U+1F0C" >> >>, << "U+1F05", << "U+1F0D" >> >>, << "U+1F06", << "U+1F0E" >> >>,
       << "U+1F07", << "U+1F0F" >> >>, << "U+1F10", << "U+1F18" >> >>, << "U+1F11", << "U+1F19" >> >>,
       << "U+1F12", << "U+1F1A" >> >>, << "U+1F13", << "U+1F1B" >> >>, << "U+1F14", << "U+1F1C" >> >>,
       << "U+1F15", << "U+1F1D" >> >>, << "U+1F20", << "U+1F28" >> >>, << "U+1F21", << "U+1F29" >> >>,
       << "U+1F22", << "U+1F2A" >> >>, << "U+1F23", << "U+1F2B" >> >>, << "U+1F24", << "U+1F2C" >> >>,
       << "U+1F25", << "U+1F2D" >> >>, << "U+1F26", << "U+1F2E" >> >>, << "U+1F27", << "U+1F2F" >> >>,
       << "U+1F30", << "U+1F38" >> >>, << "U+1F31", << "U+1F39" >> >>, << "U+1F32", << "U+1F3A" >> >>,
       << "U+1F33", << "U+1F3B" >> >>, << "U+1F34", << "U+1F3C" >> >>, << "U+1F35", << "U+1F3D" >> >>,
       << "U+1F36", << "U+1F3E" >> >>, << "U+1F37", << "U+1F3F" >> >>, << "U+1F40", << "U+1F48" >> >>,
       << "U+1F41", << "U+1F49" >> >>, << "U+1F42", << "U+1F4A" >> >>, << "U+1F43", << "U+1F4B" >> >>,
       << "U+1F44", << "U+1F4C" >> >>, << "U+1F45", << "U+1F4D" >> >>, << "U+1F50", << "U+03A5", "U+0313" >> >>,
       << "U+1F51", << "U+1F59" >> >>, << "U+1F52", << "U+03A5", "U+0313", "U+0300" >> >>, << "U+1F53", << "U+1F5B" >> >>,
       << "U+1F54", << "U+03A5", "U+0313", "U+0301" >> >>, << "U+1F55", << "U+1F5D" >> >>, << "U+1F56", << "U+03A5", "U+0313", "U+0342" >> >>,
       << "U+1F57", << "U+1F5F" >> >>, << "U+1F60", << "U+1F68" >> >>, << "U+1F61", << "U+1F69" >> >>,
       << "U+1F62", << "U+1F6A" >> >>, << "U+1F63", << "U+1F6B" >> >>, << "U+1F64", << "U+1F6C" >> >>,
       << "U+1F65", << "U+1F6D" >> >>, << "U+1F66", << "U+1F6E" >> >>, << "U+1F67", << "U+1F6F" >> >>,
       << "U+1F70", << "U+1FBA" >> >>, << "U+1F71", << "U+1FBB" >> >>, << "U+1F72", << "U+1FC8" >> >>,
       << "U+1F73", << "U+1FC9" >> >>, << "U+1F74", << "U+1FCA" >> >>, << "U+1F75", << "U+1FCB" >> >>,
       << "U+1F76", << "U+1FDA" >> >>, << "U+1F77", << "U+1FDB" >> >>, << "U+1F78", << "U+1FF8" >> >>,
       << "U+1F79", << "U+1FF9" >> >>, << "U+1F7A", << "U+1FEA" >> >>, << "U+1F7B", << "U+1FEB" >> >>,
       << "U+1F7C", << "U+1FFA" >> >>, << "U+1F7D", << "U+1FFB" >> >>, << "U+1F80", << "U+1F08", "U+0399" >> >>,
       << "U+1F81", << "U+1F09", "U+0399" >> >>, << "U+1F82", << "U+1F0A", "U+0399" >> >>, << "U+1F83", << "U+1F0B", "U+0399" >> >>,
       << "U+1F84", << "U+1F0C", "U+0399" >> >>, << "U+1F85", << "U+1F0D", "U+0399" >> >>, << "U+1F86", << "U+1F0E", "U+0399" >> >>,
       << "U+1F87", << "U+1F0F", "U+0399" >> >>, << "U+1F88", << "U+1F08", "U+0399" >> >>, << "U+1F89", << "U+1F09", "U+0399" >> >>,
       << "U+1F8A", << "U+1F0A", "U+0399" >> >>, << "U+1F8B", << "U+1F0B", "U+0399" >> >>, << "U+1F8C", << "U+1F0C", "U+0399" >> >>,
       << "U+1F8D", << "U+1F0D", "U+0399" >> >>, << "U+1F8E", << "U+1F0E", "U+0399" >> >>, << "U+1F8F", << "U+1F0F", "U+0399" >> >>,
       << "U+1F90", << "U+1F28", "U+0399" >> >>, << "U+1F91", << "U+1F29", "U+0399" >> >>, << "U+1F92", << "U+1F2A", "U+0399" >> >>,
       << "U+1F93", << "U+1F2B", "U+0399" >> >>, << "U+1F94", << "U+1F2C", "U+0399" >> >>, << "U+1F95", << "U+1F2D", "U+0399" >> >>,
       << "U+1F96", << "U+1F2E", "U+0399" >> >>, << "U+1F97", << "U+1F2F", "U+0399" >> >>, << "U+1F98", << "U+1F28", "U+0399" >> >>,
       << "U+1F99", << "U+1F29", "U+0399" >> >>, << "U+1F9A", << "U+1F2A", "U+0399" >> >>, << "U+1F9B", << "U+1F2B", "U+0399" >> >>,
       << "U+1F9C", << "U+1F2C", "U+0399" >> >>, << "U+1F9D", << "U+1F2D", "U+0399" >> >>, << "U+1F9E", << "U+1F2E", "U+0399" >> >>,
       << "U+1F9F", << "U+1F2F", "U+0399" >> >>, << "U+1FA0", << "U+1F68", "U+0399" >> >>, << "U+1FA1", << "U+1F69", "U+0399" >> >>,
       << "U+1FA2", << "U+1F6A", "U+0399" >> >>, << "U+1FA3", << "U+1F6B", "U+0399" >> >>, << "U+1FA4", << "U+1F6C", "U+0399" >> >>,
       << "U+1FA5", << "U+1F6D", "U+0399" >> >>, << "U+1FA6", << "U+1F6E", "U+0399" >> >>, << "U+1FA7", << "U+1F6F", "U+0399" >> >>,
       << "U+1FA8", << "U+1F68", "U+0399" >> >>, << "U+1FA9", << "U+1F69", "U+0399" >> >>, << "U+1FAA", << "U+1F6A", "U+0399" >> >>,
       << "U+1FAB", << "U+1F6B", "U+0399" >> >>, << "U+1FAC", << "U+1F6C", "U+0399" >> >>, << "U+1FAD", << "U+1F6D", "U+0399" >> >>,
       << "U+1FAE", << "U+1F6E", "U+0399" >> >>, << "U+1FAF", << "U+1F6F", "U+0399" >> >>, << "U+1FB0", << "U+1FB8" >> >>,
       << "U+1FB1", << "U+1FB9" >> >>, << "U+1FB2", << "U+1FBA", "U+0399" >> >>, << "U+1FB3", << "U+0391", "U+0399" >> >>,
       << "U+1FB4", << "U+0386", "U+0399" >> >>, << "U+1FB6", << "U+0391", "U+0342" >> >>, << "U+1FB7", << "U+0391", "U+0342", "U+0399" >> >>,
       << "U+1FBC", << "U+0391", "U+0399" >> >>, << "U+1FBE", << "U+0399" >> >>, << "U+1FC2", << "U+1FCA", "U+0399" >> >>,
       << "U+1FC3", << "U+0397", "U+0399" >> >>, << "U+1FC4", << "U+0389", "U+0399" >> >>, << "U+1FC6", << "U+0397", "U+0342" >> >>,
       << "U+1FC7", << "U+0397", "U+0342", "U+0399" >> >>, << "U+1FCC", << "U+0397", "U+0399" >> >>, << "U+1FD0", << "U+1FD8" >> >>,
       << "U+1FD1", << "U+1FD9" >> >>, << "U+1FD2", << "U+0399", "U+0308", "U+0300" >> >>, << "U+1FD3", << "U+0399", "U+0308", "U+0301" >> >>,
       << "U+1FD6", << "U+0399", "U+0342" >> >>, << "U+1FD7", << "U+0399", "U+0308", "U+0342" >> >>, << "U+1FE0", << "U+1FE8" >> >>,
       << "U+1FE1", << "U+1FE9" >> >>, << "U+1FE2", << "U+03A5", "U+0308", "U+0300" >> >>, << "U+1FE3", << "U+03A5", "U+0308", "U+0301" >> >>,
       << "U+1FE4", << "U+03A1", "U+0313" >> >>, << "U+1FE5", << "U+1FEC" >> >>, << "U+1FE6", << "U+03A5", "U+0342" >> >>,
       << "U+1FE7", << "U+03A5", "U+0308", "U+0342" >> >>, << "U+1FF2", << "U+1FFA", "U+0399" >> >>, << "U+1FF3", << "U+03A9", "U+0399" >> >>,
       << "U+1FF4", << "U+038F", "U+0399" >> >>, << "U+1FF6", << "U+03A9", "U+0342" >> >>, << "U+1FF7", << "U+03A9", "U+0342", "U+0399" >> >>,
       << "U+1FFC", << "U+03A9", "U+0399" >> >>, << "U+214E", << "U+2132" >> >>, << "U+2170", << "U+2160" >> >>,
       << "U+2171", << "U+2161" >> >>, << "U+2172", << "U+2162" >> >>, << "U+2173", << "U+2163" >> >>,
       << "U+2174", << "U+2164" >> >>, << "U+2175", << "U+2165" >> >>, << "U+2176", << "U+2166" >> >>,
       << "U+2177", << "U+2167" >> >>, << "U+2178", << "U+2168" >> >>, << "U+2179", << "U+2169" >> >>,
       << "U+217A", << "U+216A" >> >>, << "U+217B", << "U+216B" >> >>, << "U+217C", << "U+216C" >> >>,
       << "U+217D", << "U+216D" >> >>, << "U+217E", << "U+216E" >> >>, << "U+217F", << "U+216F" >> >>,
       << "U+2184", << "U+2183" >> >>, << "U+24D0", << "U+24B6" >> >>, << "U+24D1", << "U+24B7" >> >>,
       << "U+24D2", << "U+24B8" >> >>, << "U+24D3", << "U+24B9" >> >>, << "U+24D4", << "U+24BA" >> >>,
       << "U+24D5", << "U+24BB" >> >>, << "U+24D6", << "U+24BC" >> >>, << "U+24D7", << "U+24BD" >> >>,
       << "U+24D8", << "U+24BE" >> >>, << "U+24D9", << "U+24BF" >> >>, << "U+24DA", << "U+24C0" >> >>,
       << "U+24DB", << "U+24C1" >> >>, << "U+24DC", << "U+24C2" >> >>, << "U+24DD", << "U+24C3" >> >>,
       << "U+24DE", << "U+24C4" >> >>, << "U+24DF", << "U+24C5" >> >>, << "U+24E0", << "U+24C6" >> >>,
       << "U+24E1", << "U+24C7" >> >>, << "U+24E2", << "U+24C8" >> >>, << "U+24E3", << "U+24C9" >> >>,
       << "U+24E4", << "U+24CA" >> >>, << "U+24E5", << "U+24CB" >> >>, << "U+24E6", << "U+24CC" >> >>,
       << "U+24E7", << "U+24CD" >> >>, << "U+24E8", << "U+24CE" >> >>, << "U+24E9", << "U+24CF" >> >>,
       << "U+2C30", << "U+2C00" >> >>, << "U+2C31", << "U+2C01" >> >>, << "U+2C32", << "U+2C02" >> >>,
       << "U+2C33", << "U+2C03" >> >>, << "U+2C34", << "U+2C04" >> >>, << "U+2C35", << "U+2C05" >> >>,
       << "U+2C36", << "U+2C06" >> >>, << "U+2C37", << "U+2C07" >> >>, << "U+2C38", << "U+2C08" >> >>,
       << "U+2C39", << "U+2C09" >> >>, << "U+2C3A", << "U+2C0A" >> >>, << "U+2C3B", << "U+2C0B" >> >>,
       << "U+2C3C", << "U+2C0C" >> >>, << "U+2C3D", << "U+2C0D" >> >>, << "U+2C3E", << "U+2C0E" >> >>,
       << "U+2C3F", << "U+2C0F" >> >>, << "U+2C40", << "U+2C10" >> >>, << "U+2C41", << "U+2C11" >> >>,
       << "U+2C42", << "U+2C12" >> >>, << "U+2C43", << "U+2C13" >> >>, << "U+2C44", << "U+2C14" >> >>,
       << "U+2C45", << "U+2C15" >> >>, << "U+2C46", << "U+2C16" >> >>, << "U+2C47", << "U+2C17" >> >>,
       << "U+2C48", << "U+2C18" >> >>, << "U+2C49", << "U+2C19" >> >>, << "U+2C4A", << "U+2C1A" >> >>,
       << "U+2C4B", << "U+2C1B" >> >>, << "U+2C4C", << "U+2C1C" >> >>, << "U+2C4D", << "U+2C1D" >> >>,
       << "U+2C4E", << "U+2C1E" >> >>, << "U+2C4F", << "U+2C1F" >> >>, << "U+2C50", << "U+2C20" >> >>,
       << "U+2C51", << "U+2C21" >> >>, << "U+2C52", << "U+2C22" >> >>, << "U+2C53", << "U+2C23" >> >>,
       << "U+2C54", << "U+2C24" >> >>, << "U+2C55", << "U+2C25" >> >>, << "U+2C56", << "U+2C26" >> >>,
       << "U+2C57", << "U+2C27" >> >>, << "U+2C58", << "U+2C28" >> >>, << "U+2C59", << "U+2C29" >> >>,
       << "U+2C5A", << "U+2C2A" >> >>, << "U+2C5B", << "U+2C2B" >> >>, << "U+2C5C", << "U+2C2C" >> >>,
       << "U+2C5D", << "U+2C2D" >> >>, << "U+2C5E", << "U+2C2E" >> >>, << "U+2C5F", << "U+2C2F" >> >>,
       << "U+2C61", << "U+2C60" >> >>, << "U+2C65", << "U+023A" >> >>, << "U+2C66", << "U+023E" >> >>,
       << "U+2C68", << "U+2C67" >> >>, << "U+2C6A", << "U+2C69" >> >>, << "U+2C6C", << "U+2C6B" >> >>,
       << "U+2C73", << "U+2C72" >> >>, << "U+2C76", << "U+2C75" >> >>, << "U+2C81", << "U+2C80" >> >>,
       << "U+2C83", << "U+2C82" >> >>, << "U+2C85", << "U+2C84" >> >>, << "U+2C87", << "U+2C86" >> >>,
       << "U+2C89", << "U+2C88" >> >>, << "U+2C8B", << "U+2C8A" >> >>, << "U+2C8D", << "U+2C8C" >> >>,
       << "U+2C8F", << "U+2C8E" >> >>, << "U+2C91", << "U+2C90" >> >>, << "U+2C93", << "U+2C92" >> >>,
       << "U+2C95", << "U+2C94" >> >>, << "U+2C97", << "U+2C96" >> >>, << "U+2C99", << "U+2C98" >> >>,
       << "U+2C9B", << "U+2C9A" >> >>, << "U+2C9D", << "U+2C9C" >> >>, << "U+2C9F", << "U+2C9E" >> >>,
       << "U+2CA1", << "U+2CA0" >> >>, << "U+2CA3", << "U+2CA2" >> >>, << "U+2CA5", << "U+2CA4" >> >>,
       << "U+2CA7", << "U+2CA6" >> >>, << "U+2CA9", << "U+2CA8" >> >>, << "U+2CAB", << "U+2CAA" >> >>,
       << "U+2CAD", << "U+2CAC" >> >>, << "U+2CAF", << "U+2CAE" >> >>, << "U+2CB1", << "U+2CB0" >> >>,
       << "U+2CB3", << "U+2CB2" >> >>, << "U+2CB5", << "U+2CB4" >> >>, << "U+2CB7", << "U+2CB6" >> >>,
       << "U+2CB9", << "U+2CB8" >> >>, << "U+2CBB", << "U+2CBA" >> >>, << "U+2CBD", << "U+2CBC" >> >>,
       << "U+2CBF", << "U+2CBE" >> >>, << "U+2CC1", << "U+2CC0" >> >>, << "U+2CC3", << "U+2CC2" >> >>,
       << "U+2CC5", << "U+2CC4" >> >>, << "U+2CC7", << "U+2CC6" >> >>, << "U+2CC9", << "U+2CC8" >> >>,
       << "U+2CCB", << "U+2CCA" >> >>, << "U+2CCD", << "U+2CCC" >> >>, << "U+2CCF", << "U+2CCE" >> >>,
       << "U+2CD1", << "U+2CD0" >> >>, << "U+2CD3", << "U+2CD2" >> >>, << "U+2CD5", << "U+2CD4" >> >>,
       << "U+2CD7", << "U+2CD6" >> >>, << "U+2CD9", << "U+2CD8" >> >>, << "U+2CDB", << "U+2CDA" >> >>,
       << "U+2CDD", << "U+2CDC" >> >>, << "U+2CDF", << "U+2CDE" >> >>, << "U+2CE1", << "U+2CE0" >> >>,
       << "U+2CE3", << "U+2CE2" >> >>, << "U+2CEC", << "U+2CEB" >> >>, << "U+2CEE", << "U+2CED" >> >>,
       << "U+2CF3", << "U+2CF2" >> >>, << "U+2D00", << "U+10A0" >> >>, << "U+2D01", << "U+10A1" >> >>,
       << "U+2D02", << "U+10A2" >> >>, << "U+2D03", << "U+10A3" >> >>, << "U+2D04", << "U+10A4" >> >>,
       << "U+2D05", << "U+10A5" >> >>, << "U+2D06", << "U+10A6" >> >>, << "U+2D07", << "U+10A7" >> >>,
       << "U+2D08", << "U+10A8" >> >>, << "U+2D09", << "U+10A9" >> >>, << "U+2D0A", << "U+10AA" >> >>,
       << "U+2D0B", << "U+10AB" >> >>, << "U+2D0C", << "U+10AC" >> >>, << "U+2D0D", << "U+10AD" >> >>,
       << "U+2D0E", << "U+10AE" >> >>, << "U+2D0F", << "U+10AF" >> >>, << "U+2D10", << "U+10B0" >> >>,
       << "U+2D11", << "U+10B1" >> >>, << "U+2D12", << "U+10B2" >> >>, << "U+2D13", << "U+10B3" >> >>,
       << "U+2D14", << "U+10B4" >> >>, << "U+2D15", << "U+10B5" >> >>, << "U+2D16", << "U+10B6" >> >>,
       << "U+2D17", << "U+10B7" >> >>, << "U+2D18", << "U+10B8" >> >>, << "U+2D19", << "U+10B9" >> >>,
       << "U+2D1A", << "U+10BA" >> >>, << "U+2D1B", << "U+10BB" >> >>, << "U+2D1C", << "U+10BC" >> >>,
       << "U+2D1D", << "U+10BD" >> >>, << "U+2D1E", << "U+10BE" >> >>, << "U+2D1F", << "U+10BF" >> >>,
       << "U+2D20", << "U+10C0" >> >>, << "U+2D21", << "U+10C1" >> >>, << "U+2D22", << "U+10C2" >> >>,
       << "U+2D23", << "U+10C3" >> >>, << "U+2D24", << "U+10C4" >> >>, << "U+2D25", << "U+10C5" >> >>,
       << "U+2D27", << "U+10C7" >> >>, << "U+2D2D", << "U+10CD" >> >>, << "U+A641", << "U+A640" >> >>,
       << "U+A643", << "U+A642" >> >>, << "U+A645", << "U+A644" >> >>, << "U+A647", << "U+A646" >> >>,
       << "U+A649", << "U+A648" >> >>, << "U+A64B", << "U+A64A" >> >>, << "U+A64D", << "U+A64C" >> >>,
       << "U+A64F", << "U+A64E" >> >>, << "U+A651", << "U+A650" >> >>, << "U+A653", << "U+A652" >> >>,
       << "U+A655", << "U+A654" >> >>, << "U+A657", << "U+A656" >> >>, << "U+A659", << "U+A658" >> >>,
       << "U+A65B", << "U+A65A" >> >>, << "U+A65D", << "U+A65C" >> >>, << "U+A65F", << "U+A65E" >> >>,
       << "U+A661", << "U+A660" >> >>, << "U+A663", << "U+A662" >> >>, << "U+A665", << "U+A664" >> >>,
       << "U+A667", << "U+A666" >> >>, << "U+A669", << "U+A668" >> >>, << "U+A66B", << "U+A66A" >> >>,
       << "U+A66D", << "U+A66C" >> >>, << "U+A681", << "U+A680" >> >>, << "U+A683", << "U+A682" >> >>,
       << "U+A685", << "U+A684" >> >>, << "U+A687", << "U+A686" >> >>, << "U+A689", << "U+A688" >> >>,
       << "U+A68B", << "U+A68A" >> >>, << "U+A68D", << "U+A68C" >> >>, << "U+A68F", << "U+A68E" >> >>,
       << "U+A691", << "U+A690" >> >>, << "U+A693", << "U+A692" >> >>, << "U+A695", << "U+A694" >> >>,
       << "U+A697", << "U+A696" >> >>, << "U+A699", << "U+A698" >> >>, << "U+A69B", << "U+A69A" >> >>,
       << "U+A723", << "U+A722" >> >>, << "U+A725", << "U+A724" >> >>, << "U+A727", << "U+A726" >> >>,
       << "U+A729", << "U+A728" >> >>, << "U+A72B", << "U+A72A" >> >>, << "U+A72D", << "U+A72C" >> >>,
       << "U+A72F", << "U+A72E" >> >>, << "U+A733", << "U+A732" >> >>, << "U+A735", << "U+A734" >> >>,
       << "U+A737", << "U+A736" >> >>, << "U+A739", << "U+A738" >> >>, << "U+A73B", << "U+A73A" >> >>,
       << "U+A73D", << "U+A73C" >> >>, << "U+A73F", << "U+A73E" >> >>, << "U+A741", << "U+A740" >> >>,
       << "U+A743", << "U+A742" >> >>, << "U+A745", << "U+A744" >> >>, << "U+A747", << "U+A746" >> >>,
       << "U+A749", << "U+A748" >> >>, << "U+A74B", << "U+A74A" >> >>, << "U+A74D", << "U+A74C" >> >>,
       << "U+A74F", << "U+A74E" >> >>, << "U+A751", << "U+A750" >> >>, << "U+A753", << "U+A752" >> >>,
       << "U+A755", << "U+A754" >> >>, << "U+A757", << "U+A756" >> >>, << "U+A759", << "U+A758" >> >>,
       << "U+A75B", << "U+A75A" >> >>, << "U+A75D", << "U+A75C" >> >>, << "U+A75F", << "U+A75E" >> >>,
       << "U+A761", << "U+A760" >> >>, << "U+A763", << "U+A762" >> >>, << "U+A765", << "U+A764" >> >>,
       << "U+A767", << "U+A766" >> >>, << "U+A769", << "U+A768" >> >>, << "U+A76B", << "U+A76A" >> >>,
       << "U+A76D", << "U+A76C" >> >>, << "U+A76F", << "U+A76E" >> >>, << "U+A77A", << "U+A779" >> >>,
       << "U+A77C", << "U+A77B" >> >>, << "U+A77F", << "U+A77E" >> >>, << "U+A781", << "U+A780" >> >>,
       << "U+A783", << "U+A782" >> >>, << "U+A785", << "U+A784" >> >>, << "U+A787", << "U+A786" >> >>,
       << "U+A78C", << "U+A78B" >> >>, << "U+A791", << "U+A790" >> >>, << "U+A793", << "U+A792" >> >>,
       << "U+A794", << "U+A7C4" >> >>, << "U+A797", << "U+A796" >> >>, << "U+A799", << "U+A798" >> >>,
       << "U+A79B", << "U+A79A" >> >>, << "U+A79D", << "U+A79C" >> >>, << "U+A79F", << "U+A79E" >> >>,
       << "U+A7A1", << "U+A7A0" >> >>, << "U+A7A3", << "U+A7A2" >> >>, << "U+A7A5", << "U+A7A4" >> >>,
       << "U+A7A7", << "U+A7A6" >> >>, << "U+A7A9", << "U+A7A8" >> >>, << "U+A7B5", << "U+A7B4" >> >>,
       << "U+A7B7", << "U+A7B6" >> >>, << "U+A7B9", << "U+A7B8" >> >>, << "U+A7BB", << "U+A7BA" >> >>,
       << "U+A7BD", << "U+A7BC" >> >>, << "U+A7BF", << "U+A7BE" >> >>, << "U+A7C1", << "U+A7C0" >> >>,
       << "U+A7C3", << "U+A7C2" >> >>, << "U+A7C8", << "U+A7C7" >> >>, << "U+A7CA", << "U+A7C9" >> >>,
       << "U+A7CD", << "U+A7CC" >> >>, << "U+A7CF", << "U+A7CE" >> >>, << "U+A7D1", << "U+A7D0" >> >>,
       << "U+A7D3", << "U+A7D2" >> >>, << "U+A7D5", << "U+A7D4" >> >>, << "U+A7D7", << "U+A7D6" >> >>,
       << "U+A7D9", << "U+A7D8" >> >>, << "U+A7DB", << "U+A7DA" >> >>, << "U+A7F6", << "U+A7F5" >> >>,
       << "U+AB53", << "U+A7B3" >> >>, << "U+AB70", << "U+13A0" >> >>, << "U+AB71", << "U+13A1" >> >>,
       << "U+AB72", << "U+13A2" >> >>, << "U+AB73", << "U+13A3" >> >>, << "U+AB74", << "U+13A4" >> >>,
       << "U+AB75", << "U+13A5" >> >>, << "U+AB76", << "U+13A6" >> >>, << "U+AB77", << "U+13A7" >> >>,
       << "U+AB78", << "U+13A8" >> >>, << "U+AB79", << "U+13A9" >> >>, << "U+AB7A", << "U+13AA" >> >>,
       << "U+AB7B", << "U+13AB" >> >>, << "U+AB7C", << "U+13AC" >> >>, << "U+AB7D", << "U+13AD" >> >>,
       << "U+AB7E", << "U+13AE" >> >>, << "U+AB7F", << "U+13AF" >> >>, << "U+AB80", << "U+13B0" >> >>,
       << "U+AB81", << "U+13B1" >> >>, << "U+AB82", << "U+13B2" >> >>, << "U+AB83", << "U+13B3" >> >>,
       << "U+AB84", << "U+13B4" >> >>, << "U+AB85", << "U+13B5" >> >>, << "U+AB86", << "U+13B6" >> >>,
       << "U+AB87", << "U+13B7" >> >>, << "U+AB88", << "U+13B8" >> >>, << "U+AB89", << "U+13B9" >> >>,
       << "U+AB8A", << "U+13BA" >> >>, << "U+AB8B", << "U+13BB" >> >>, << "U+AB8C", << "U+13BC" >> >>,
       << "U+AB8D", << "U+13BD" >> >>, << "U+AB8E", << "U+13BE" >> >>, << "U+AB8F", << "U+13BF" >> >>,
       << "U+AB90", << "U+13C0" >> >>, << "U+AB91", << "U+13C1" >> >>, << "U+AB92", << "U+13C2" >> >>,
       << "U+AB93", << "U+13C3" >> >>, << "U+AB94", << "U+13C4" >> >>, << "U+AB95", << "U+13C5" >> >>,
       << "U+AB96", << "U+13C6" >> >>, << "U+AB97", << "U+13C7" >> >>, << "U+AB98", << "U+13C8" >> >>,
       << "U+AB99", << "U+13C9" >> >>, << "U+AB9A", << "U+13CA" >> >>, << "U+AB9B", << "U+13CB" >> >>,
       << "U+AB9C", << "U+13CC" >> >>, << "U+AB9D", << "U+13CD" >> >>, << "U+AB9E", << "U+13CE" >> >>,
       << "U+AB9F", << "U+13CF" >> >>, << "U+ABA0", << "U+13D0" >> >>, << "U+ABA1", << "U+13D1" >> >>,
       << "U+ABA2", << "U+13D2" >> >>, << "U+ABA3", << "U+13D3" >> >>, << "U+ABA4", << "U+13D4" >> >>,
       << "U+ABA5", << "U+13D5" >> >>, << "U+ABA6", << "U+13D6" >> >>, << "U+ABA7", << "U+13D7" >> >>,
       << "U+ABA8", << "U+13D8" >> >>, << "U+ABA9", << "U+13D9" >> >>, << "U+ABAA", << "U+13DA" >> >>,
       << "U+ABAB", << "U+13DB" >> >>, << "U+ABAC", << "U+13DC" >> >>, << "U+ABAD", << "U+13DD" >> >>,
       << "U+ABAE", << "U+13DE" >> >>, << "U+ABAF", << "U+13DF" >> >>, << "U+ABB0", << "U+13E0" >> >>,
       << "U+ABB1", << "U+13E1" >> >>, << "U+ABB2", << "U+13E2" >> >>, << "U+ABB3", << "U+13E3" >> >>,
       << "U+ABB4", << "U+13E4" >> >>, << "U+ABB5", << "U+13E5" >> >>, << "U+ABB6", << "U+13E6" >> >>,
       << "U+ABB7", << "U+13E7" >> >>, << "U+ABB8", << "U+13E8" >> >>, << "U+ABB9", << "U+13E9" >> >>,
       << "U+ABBA", << "U+13EA" >> >>, << "U+ABBB", << "U+13EB" >> >>, << "U+ABBC", << "U+13EC" >> >>,
       << "U+ABBD", << "U+13ED" >> >>, << "U+ABBE", << "U+13EE" >> >>, << "U+ABBF", << "U+13EF" >> >>,
       << "U+FB00", << "F", "F" >> >>, << "U+FB01", << "F", "I" >> >>, << "U+FB02", << "F", "L" >> >>,
       << "U+FB03", << "F", "F", "I" >> >>, << "U+FB04", << "F", "F", "L" >> >>, << "U+FB05", << "S", "T" >> >>,
       << "U+FB06", << "S", "T" >> >>, << "U+FB13", << "U+0544", "U+0546" >> >>, << "U+FB14", << "U+0544", "U+0535" >> >>,
       << "U+FB15", << "U+0544", "U+053B" >> >>, << "U+FB16", << "U+054E", "U+0546" >> >>, << "U+FB17", << "U+0544", "U+053D" >> >>,
       << "U+FF41", << "U+FF21" >> >>, << "U+FF42", << "U+FF22" >> >>, << "U+FF43", << "U+FF23" >> >>,
       << "U+FF44", << "U+FF24" >> >>, << "U+FF45", << "U+FF25" >> >>, << "U+FF46", << "U+FF26" >> >>,
       << "U+FF47", << "U+FF27" >> >>, << "U+FF48", << "U+FF28" >> >>, << "U+FF49", << "U+FF29" >> >>,
       << "U+FF4A", << "U+FF2A" >> >>, << "U+FF4B", << "U+FF2B" >> >>, << "U+FF4C", << "U+FF2C" >> >>,
       << "U+FF4D", << "U+FF2D" >> >>, << "U+FF4E", << "U+FF2E" >> >>, << "U+FF4F", << "U+FF2F" >> >>,
       << "U+FF50", << "U+FF30" >> >>, << "U+FF51", << "U+FF31" >> >>, << "U+FF52", << "U+FF32" >> >>,
       << "U+FF53", << "U+FF33" >> >>, << "U+FF54", << "U+FF34" >> >>, << "U+FF55", << "U+FF35" >> >>,
       << "U+FF56", << "U+FF36" >> >>, << "U+FF57", << "U+FF37" >> >>, << "U+FF58", << "U+FF38" >> >>,
       << "U+FF59", << "U+FF39" >> >>, << "U+FF5A", << "U+FF3A" >> >>, << "U+10428", << "U+10400" >> >>,
       << "U+10429", << "U+10401" >> >>, << "U+1042A", << "U+10402" >> >>, << "U+1042B", << "U+10403" >> >>,
       << "U+1042C", << "U+10404" >> >>, << "U+1042D", << "U+10405" >> >>, << "U+1042E", << "U+10406" >> >>,
       << "U+1042F", << "U+10407" >> >>, << "U+10430", << "U+10408" >> >>, << "U+10431", << "U+10409" >> >>,
       << "U+10432", << "U+1040A" >> >>, << "U+10433", << "U+1040B" >> >>, << "U+10434", << "U+1040C" >> >>,
       << "U+10435", << "U+1040D" >> >>, << "U+10436", << "U+1040E" >> >>, << "U+10437", << "U+1040F" >> >>,
       << "U+10438", << "U+10410" >> >>, << "U+10439", << "U+10411" >> >>, << "U+1043A", << "U+10412" >> >>,
       << "U+1043B", << "U+10413" >> >>, << "U+1043C", << "U+10414" >> >>, << "U+1043D", << "U+10415" >> >>,
       << "U+1043E", << "U+10416" >> >>, << "U+1043F", << "U+10417" >> >>, << "U+10440", << "U+10418" >> >>,
       << "U+10441", << "U+10419" >> >>, << "U+10442", << "U+1041A" >> >>, << "U+10443", << "U+1041B" >> >>,
       << "U+10444", << "U+1041C" >> >>, << "U+10445", << "U+1041D" >> >>, << "U+10446", << "U+1041E" >> >>,
       << "U+10447", << "U+1041F" >> >>, << "U+10448", << "U+10420" >> >>, << "U+10449", << "U+10421" >> >>,
       << "U+1044A", << "U+10422" >> >>, << "U+1044B", << "U+10423" >> >>, << "U+1044C", << "U+10424" >> >>,
       << "U+1044D", << "U+10425" >> >>, << "U+1044E", << "U+10426" >> >>, << "U+1044F", << "U+10427" >> >>,
       << "U+104D8", << "U+104B0" >> >>, << "U+104D9", << "U+104B1" >> >>, << "U+104DA", << "U+104B2" >> >>,
       << "U+104DB", << "U+104B3" >> >>, << "U+104DC", << "U+104B4" >> >>, << "U+104DD", << "U+104B5" >> >>,
       << "U+104DE", << "U+104B6" >> >>, << "U+104DF", << "U+104B7" >> >>, << "U+104E0", << "U+104B8" >> >>,
       << "U+104E1", << "U+104B9" >> >>, << "U+104E2", << "U+104BA" >> >>, << "U+104E3", << "U+104BB" >> >>,
       << "U+104E4", << "U+104BC" >> >>, << "U+104E5", << "U+104BD" >> >>, << "U+104E6", << "U+104BE" >> >>,
       << "U+104E7", << "U+104BF" >> >>, << "U+104E8", << "U+104C0" >> >>, << "U+104E9", << "U+104C1" >> >>,
       << "U+104EA", << "U+104C2" >> >>, << "U+104EB", << "U+104C3" >> >>, << "U+104EC", << "U+104C4" >> >>,
       << "U+104ED", << "U+104C5" >> >>, << "U+104EE", << "U+104C6" >> >>, << "U+104EF", << "U+104C7" >> >>,
       << "U+104F0", << "U+104C8" >> >>, << "U+104F1", << "U+104C9" >> >>, << "U+104F2", << "U+104CA" >> >>,
       << "U+104F3", << "U+104CB" >> >>, << "U+104F4", << "U+104CC" >> >>, << "U+104F5", << "U+104CD" >> >>,
       << "U+104F6", << "U+104CE" >> >>, << "U+104F7", << "U+104CF" >> >>, << "U+104F8", << "U+104D0" >> >>,
       << "U+104F9", << "U+104D1" >> >>, << "U+104FA", << "U+104D2" >> >>, << "U+104FB", << "U+104D3" >> >>,
       << "U+10597", << "U+10570" >> >>, << "U+10598", << "U+10571" >> >>, << "U+10599", << "U+10572" >> >>,
       << "U+1059A", << "U+10573" >> >>, << "U+1059B", << "U+10574" >> >>, << "U+1059C", << "U+10575" >> >>,
       << "U+1059D", << "U+10576" >> >>, << "U+1059E", << "U+10577" >> >>, << "U+1059F", << "U+10578" >> >>,
       << "U+105A0", << "U+10579" >> >>, << "U+105A1", << "U+1057A" >> >>, << "U+105A3", << "U+1057C" >> >>,
       << "U+105A4", << "U+1057D" >> >>, << "U+105A5", << "U+1057E" >> >>, << "U+105A6", << "U+1057F" >> >>,
       << "U+105A7", << "U+10580" >> >>, << "U+105A8", << "U+10581" >> >>, << "U+105A9", << "U+10582" >> >>,
       << "U+105AA", << "U+10583" >> >>, << "U+105AB", << "U+10584" >> >>, << "U+105AC", << "U+10585" >> >>,
       << "U+105AD", << "U+10586" >> >>, << "U+105AE", << "U+10587" >> >>, << "U+105AF", << "U+10588" >> >>,
       << "U+105B0", << "U+10589" >> >>, << "U+105B1", << "U+1058A" >> >>, << "U+105B3", << "U+1058C" >> >>,
       << "U+105B4", << "U+1058D" >> >>, << "U+105B5", << "U+1058E" >> >>, << "U+105B6", << "U+1058F" >> >>,
       << "U+105B7", << "U+10590" >> >>, << "U+105B8", << "U+10591" >> >>, << "U+105B9", << "U+10592" >> >>,
       << "U+105BB", << "U+10594" >> >>, << "U+105BC", << "U+10595" >> >>, << "U+10CC0", << "U+10C80" >> >>,
       << "U+10CC1", << "U+10C81" >> >>, << "U+10CC2", << "U+10C82" >> >>, << "U+10CC3", << "U+10C83" >> >>,
       << "U+10CC4", << "U+10C84" >> >>, << "U+10CC5", << "U+10C85" >> >>, << "U+10CC6", << "U+10C86" >> >>,
       << "U+10CC7", << "U+10C87" >> >>, << "U+10CC8", << "U+10C88" >> >>, << "U+10CC9", << "U+10C89" >> >>,
       << "U+10CCA", << "U+10C8A" >> >>, << "U+10CCB", << "U+10C8B" >> >>, << "U+10CCC", << "U+10C8C" >> >>,
       << "U+10CCD", << "U+10C8D" >> >>, << "U+10CCE", << "U+10C8E" >> >>, << "U+10CCF", << "U+10C8F" >> >>,
       << "U+10CD0", << "U+10C90" >> >>, << "U+10CD1", << "U+10C91" >> >>, << "U+10CD2", << "U+10C92" >> >>,
       << "U+10CD3", << "U+10C93" >> >>, << "U+10CD4", << "U+10C94" >> >>, << "U+10CD5", << "U+10C95" >> >>,
       << "U+10CD6", << "U+10C96" >> >>, << "U+10CD7", << "U+10C97" >> >>, << "U+10CD8", << "U+10C98" >> >>,
       << "U+10CD9", << "U+10C99" >> >>, << "U+10CDA", << "U+10C9A" >> >>, << "U+10CDB", << "U+10C9B" >> >>,
       << "U+10CDC", << "U+10C9C" >> >>, << "U+10CDD", << "U+10C9D" >> >>, << "U+10CDE", << "U+10C9E" >> >>,
       << "U+10CDF", << "U+10C9F" >> >>, << "U+10CE0", << "U+10CA0" >> >>, << "U+10CE1", << "U+10CA1" >> >>,
       << "U+10CE2", << "U+10CA2" >> >>, << "U+10CE3", << "U+10CA3" >> >>, << "U+10CE4", << "U+10CA4" >> >>,
       << "U+10CE5", << "U+10CA5" >> >>, << "U+10CE6", << "U+10CA6" >> >>, << "U+10CE7", << "U+10CA7" >> >>,
       << "U+10CE8", << "U+10CA8" >> >>, << "U+10CE9", << "U+10CA9" >> >>, << "U+10CEA", << "U+10CAA" >> >>,
       << "U+10CEB", << "U+10CAB" >> >>, << "U+10CEC", << "U+10CAC" >> >>, << "U+10CED", << "U+10CAD" >> >>,
       << "U+10CEE", << "U+10CAE" >> >>, << "U+10CEF", << "U+10CAF" >> >>, << "U+10CF0", << "U+10CB0" >> >>,
       << "U+10CF1", << "U+10CB1" >> >>, << "U+10CF2", << "U+10CB2" >> >>, << "U+10D70", << "U+10D50" >> >>,
       << "U+10D71", << "U+10D51" >> >>, << "U+10D72", << "U+10D52" >> >>, << "U+10D73", << "U+10D53" >> >>,
       << "U+10D74", << "U+10D54" >> >>, << "U+10D75", << "U+10D55" >> >>, << "U+10D76", << "U+10D56" >> >>,
       << "U+10D77", << "U+10D57" >> >>, << "U+10D78", << "U+10D58" >> >>, << "U+10D79", << "U+10D59" >> >>,
       << "U+10D7A", << "U+10D5A" >> >>, << "U+10D7B", << "U+10D5B" >> >>, << "U+10D7C", << "U+10D5C" >> >>,
       << "U+10D7D", << "U+10D5D" >> >>, << "U+10D7E", << "U+10D5E" >> >>, << "U+10D7F", << "U+10D5F" >> >>,
       << "U+10D80", << "U+10D60" >> >>, << "U+10D81", << "U+10D61" >> >>, << "U+10D82", << "U+10D62" >> >>,
       << "U+10D83", << "U+10D63" >> >>, << "U+10D84", << "U+10D64" >> >>, << "U+10D85", << "U+10D65" >> >>,
       << "U+118C0", << "U+118A0" >> >>, << "U+118C1", << "U+118A1" >> >>, << "U+118C2", << "U+118A2" >> >>,
       << "U+118C3", << "U+118A3" >> >>, << "U+118C4", << "U+118A4" >> >>, << "U+118C5", << "U+118A5" >> >>,
       << "U+118C6", << "U+118A6" >> >>, << "U+118C7", << "U+118A7" >> >>, << "U+118C8", << "U+118A8" >> >>,
       << "U+118C9", << "U+118A9" >> >>, << "U+118CA", << "U+118AA" >> >>, << "U+118CB", << "U+118AB" >> >>,
       << "U+118CC", << "U+118AC" >> >>, << "U+118CD", << "U+118AD" >> >>, << "U+118CE", << "U+118AE" >> >>,
       << "U+118CF", << "U+118AF" >> >>, << "U+118D0", << "U+118B0" >> >>, << "U+118D1", << "U+118B1" >> >>,
       << "U+118D2", << "U+118B2" >> >>, << "U+118D3", << "U+118B3" >> >>, << "U+118D4", << "U+118B4" >> >>,
       << "U+118D5", << "U+118B5" >> >>, << "U+118D6", << "U+118B6" >> >>, << "U+118D7", << "U+118B7" >> >>,
       << "U+118D8", << "U+118B8" >> >>, << "U+118D9", << "U+118B9" >> >>, << "U+118DA", << "U+118BA" >> >>,
       << "U+118DB", << "U+118BB" >> >>, << "U+118DC", << "U+118BC" >> >>, << "U+118DD", << "U+118BD" >> >>,
       << "U+118DE", << "U+118BE" >> >>, << "U+118DF", << "U+118BF" >> >>, << "U+16E60", << "U+16E40" >> >>,
       << "U+16E61", << "U+16E41" >> >>, << "U+16E62", << "U+16E42" >> >>, << "U+16E63", << "U+16E43" >> >>,
       << "U+16E64", << "U+16E44" >> >>, << "U+16E65", << "U+16E45" >> >>, << "U+16E66", << "U+16E46" >> >>,
       << "U+16E67", << "U+16E47" >> >>, << "U+16E68", << "U+16E48" >> >>, << "U+16E69", << "U+16E49" >> >>,
       << "U+16E6A", << "U+16E4A" >> >>, << "U+16E6B", << "U+16E4B" >> >>, << "U+16E6C", << "U+16E4C" >> >>,
       << "U+16E6D", << "U+16E4D" >> >>, << "U+16E6E", << "U+16E4E" >> >>, << "U+16E6F", << "U+16E4F" >> >>,
       << "U+16E70", << "U+16E50" >> >>, << "U+16E71", << "U+16E51" >> >>, << "U+16E72", << "U+16E52" >> >>,
       << "U+16E73", << "U+16E53" >> >>, << "U+16E74", << "U+16E54" >> >>, << "U+16E75", << "U+16E55" >> >>,
       << "U+16E76", << "U+16E56" >> >>, << "U+16E77", << "U+16E57" >> >>, << "U+16E78", << "U+16E58" >> >>,
       << "U+16E79", << "U+16E59" >> >>, << "U+16E7A", << "U+16E5A" >> >>, << "U+16E7B", << "U+16E5B" >> >>,
       << "U+16E7C", << "U+16E5C" >> >>, << "U+16E7D", << "U+16E5D" >> >>, << "U+16E7E", << "U+16E5E" >> >>,
       << "U+16E7F", << "U+16E5F" >> >>, << "U+16EBB", << "U+16EA0" >> >>, << "U+16EBC", << "U+16EA1" >> >>,
       << "U+16EBD", << "U+16EA2" >> >>, << "U+16EBE", << "U+16EA3" >> >>, << "U+16EBF", << "U+16EA4" >> >>,
       << "U+16EC0", << "U+16EA5" >> >>, << "U+16EC1", << "U+16EA6" >> >>, << "U+16EC2", << "U+16EA7" >> >>,
       << "U+16EC3", << "U+16EA8" >> >>, << "U+16EC4", << "U+16EA9" >> >>, << "U+16EC5", << "U+16EAA" >> >>,
       << "U+16EC6", << "U+16EAB" >> >>, << "U+16EC7", << "U+16EAC" >> >>, << "U+16EC8", << "U+16EAD" >> >>,
       << "U+16EC9", << "U+16EAE" >> >>, << "U+16ECA", << "U+16EAF" >> >>, << "U+16ECB", << "U+16EB0" >> >>,
       << "U+16ECC", << "U+16EB1" >> >>, << "U+16ECD", << "U+16EB2" >> >>, << "U+16ECE", << "U+16EB3" >> >>,
       << "U+16ECF", << "U+16EB4" >> >>, << "U+16ED0", << "U+16EB5" >> >>, << "U+16ED1", << "U+16EB6" >> >>,
       << "U+16ED2", << "U+16EB7" >> >>, << "U+16ED3", << "U+16EB8" >> >>, << "U+1E922", << "U+1E900" >> >>,
       << "U+1E923", << "U+1E901" >> >>, << "U+1E924", << "U+1E902" >> >>, << "U+1E925", << "U+1E903" >> >>,
       << "U+1E926", << "U+1E904" >> >>, << "U+1E927", << "U+1E905" >> >>, << "U+1E928", << "U+1E906" >> >>,
       << "U+1E929", << "U+1E907" >> >>, << "U+1E92A", << "U+1E908" >> >>, << "U+1E92B", << "U+1E909" >> >>,
       << "U+1E92C", << "U+1E90A" >> >>, << "U+1E92D", << "U+1E90B" >> >>, << "U+1E92E", << "U+1E90C" >> >>,
       << "U+1E92F", << "U+1E90D" >> >>, << "U+1E930", << "U+1E90E" >> >>, << "U+1E931", << "U+1E90F" >> >>,
       << "U+1E932", << "U+1E910" >> >>, << "U+1E933", << "U+1E911" >> >>, << "U+1E934", << "U+1E912" >> >>,
       << "U+1E935", << "U+1E913" >> >>, << "U+1E936", << "U+1E914" >> >>, << "U+1E937", << "U+1E915" >> >>,
       << "U+1E938", << "U+1E916" >> >>, << "U+1E939", << "U+1E917" >> >>, << "U+1E93A", << "U+1E918" >> >>,
       << "U+1E93B", << "U+1E919" >> >>, << "U+1E93C", << "U+1E91A" >> >>, << "U+1E93D", << "U+1E91B" >> >>,
       << "U+1E93E", << "U+1E91C" >> >>, << "U+1E93F", << "U+1E91D" >> >>, << "U+1E940", << "U+1E91E" >> >>,
       << "U+1E941", << "U+1E91F" >> >>, << "U+1E942", << "U+1E920" >> >>, << "U+1E943", << "U+1E921" >> >>
    >>

\* the upper case of one character: a-z to A-Z, a character of UnicodeUpper to
\* its entry (one to three characters), anything else to itself
UpperOf(c) ==
    IF \E k \in 1..Len(LowerCase) : LowerCase[k] = c
    THEN << UpperCase[CHOOSE k \in 1..Len(LowerCase) : LowerCase[k] = c] >>
    ELSE IF \E k \in 1..Len(UnicodeUpper) : UnicodeUpper[k][1] = c
    THEN UnicodeUpper[CHOOSE k \in 1..Len(UnicodeUpper) : UnicodeUpper[k][1] = c][2]
    ELSE << c >>

RECURSIVE toUpperCase(_)
\* String.prototype.toUpperCase
toUpperCase(s) ==
    IF s = <<>> THEN <<>> ELSE UpperOf(Head(s)) \o toUpperCase(Tail(s))

\* the comparison made without toUpperCase()
optionalEnvToBooleanExactCase(input) ==
    IF input = Undefined THEN Undefined
    ELSE IF input.s = << "F", "A", "L", "S", "E" >> THEN Bool(FALSE)
    ELSE IF input.s = << "T", "R", "U", "E" >> THEN Bool(TRUE)
    ELSE IF input.type = "string" THEN Bool(TRUE)
    ELSE Undefined

optionalEnvToBoolean(input) ==
    IF input = Undefined THEN Undefined
    ELSE IF toUpperCase(input.s) = << "F", "A", "L", "S", "E" >> THEN Bool(FALSE)
    ELSE IF toUpperCase(input.s) = << "T", "R", "U", "E" >> THEN Bool(TRUE)
    ELSE IF input.type = "string" THEN Bool(TRUE)
    ELSE Undefined

\* core(existing, options), with env = process.env.STORYBOOK_ENABLE_CRASH_REPORTS
core(existing, options, env) ==
    Spread(existing,
           [disableTelemetry |->
                Bool(options.disableTelemetry = Bool(TRUE) \/ options.test = Bool(TRUE)),
            enableCrashReports |->
                JsOr(options.enableCrashReports, optionalEnvToBoolean(env))])

\* `{}`
EmptyObject == [k \in {} |-> Undefined]

\* the core configs earlier presets may have produced
ExistingPool ==
    { EmptyObject,
      [builder |-> Str(<< "w", "e", "b", "p", "a", "c", "k", "5" >>)],
      [builder |-> Str(<< "v", "i", "t", "e" >>),
       disableTelemetry |-> Bool(FALSE),
       enableCrashReports |-> Bool(TRUE)],
      [disableWhatsNewNotifications |-> Bool(TRUE), disableTelemetry |-> Bool(TRUE)] }

OptionalBool == { Undefined, Bool(TRUE), Bool(FALSE) }

\* values of STORYBOOK_ENABLE_CRASH_REPORTS
EnvPool ==
    { Undefined,
      Str(<< "f", "a", "l", "s", "e" >>),
      Str(<< "F", "A", "L", "S", "E" >>),
      Str(<< "F", "a", "l", "s", "E" >>),
      Str(<< "t", "r", "u", "e" >>),
      Str(<< "T", "R", "U", "E" >>),
      Str(<< "f", "a", "l", "s", "e", "y" >>),
      Str(<< "f", "a", "l", LONG_S, "e" >>),
      Str(<< "f", "a", "l", SHARP_S, "e" >>),
      Str(<< "t", "r", "u", SHARP_S >>),
      Str(<< "t", "r", "U+00FC", "e" >>),
      Str(<< "U+FB02", "a", "l", "s", "e" >>),
      Str(<< "n", "o" >>),
      Str(<< "0" >>),
      Str(<<>>) }

ApplyCore == Return("core", core(presetArgs.existing, presetArgs.options, presetArgs.env))

CoreInit ==
    /\ RouterIdle
    /\ ChannelIdle
    /\ \E existing \in ExistingPool :
       \E dt \in OptionalBool : \E test \in OptionalBool : \E ecr \in OptionalBool :
       \E env \in EnvPool :
          presetArgs = [existing |-> existing,
                        options |-> [disableTelemetry |-> dt, test |-> test,
                                     enableCrashReports |-> ecr],
                        env |-> env]
    /\ presetResult = <<>>
    /\ disk = {}
    /\ faviconCall = <<>>

SpecCore == CoreInit /\ [][ApplyCore]_vars

-----------------------------------------------------------------------------
(* Claims about core *)

\* the text is 'false' in some letter case
IsFalseAnyCase(s) ==
    /\ Len(s) = 5
    /\ s[1] \in {"f", "F"} /\ s[2] \in {"a", "A"} /\ s[3] \in {"l", "L"}
    /\ s[4] \in {"s", "S"} /\ s[5] \in {"e", "E"}

\* the text is 'false' in some letter case, or that with the long s (U+017F)
\* in the place of the 's'
IsFalseOrLongS(s) ==
    /\ Len(s) = 5
    /\ s[1] \in {"f", "F"} /\ s[2] \in {"a", "A"} /\ s[3] \in {"l", "L"}
    /\ s[4] \in {"s", "S", "U+017F"} /\ s[5] \in {"e", "E"}

\* core keeps every key of the existing config other than disableTelemetry
\* and enableCrashReports; disableTelemetry is true exactly when
\* options.disableTelemetry === true or options.test === true;
\* enableCrashReports is options.enableCrashReports when truthy, otherwise the
\* environment value mapped unset -> undefined, the texts of MeansFalse ->
\* false, any other string -> true.
CoreMerges(MeansFalse(_)) ==
    "core" \in DOMAIN presetResult =>
        LET out == presetResult["core"]
            existing == presetArgs.existing
            options == presetArgs.options
            env == presetArgs.env
        IN /\ DOMAIN out = (DOMAIN existing) \cup {"disableTelemetry", "enableCrashReports"}
           /\ \A k \in (DOMAIN existing) \ {"disableTelemetry", "enableCrashReports"} :
                out[k] = existing[k]
           /\ out.disableTelemetry.type = "boolean"
           /\ out.disableTelemetry.b <=>
                (options.disableTelemetry = [type |-> "boolean", b |-> TRUE]
                    \/ options.test = [type |-> "boolean", b |-> TRUE])
           /\ out.enableCrashReports =
                IF options.enableCrashReports = [type |-> "boolean", b |-> TRUE]
                THEN options.enableCrashReports
                ELSE IF env.type = "undefined" THEN [type |-> "undefined"]
                ELSE IF MeansFalse(env.s) THEN [type |-> "boolean", b |-> FALSE]
                ELSE [type |-> "boolean", b |-> TRUE]

\* C5 as claimed: core keeps the other keys of the existing config,
\* disableTelemetry is true exactly when options.disableTelemetry === true or
\* options.test === true, and enableCrashReports is the option when truthy,
\* otherwise the environment value mapped unset -> undefined, 'false' in any
\* letter case -> false, any other string -> true.
C5_AsClaimed == CoreMerges(IsFalseAnyCase)

\* C5, amended: as claimed, except that the environment value also maps to
\* false when it is 'false' in some letter case with the long s (U+017F) in
\* the place of the 's', whose upper case is 'S' as well.
C5_CoreMerges == CoreMerges(IsFalseOrLongS)

\* an existing config with its own keys, options.enableCrashReports false and
\* the environment saying 'false' with the long s
C5_Witness ==
    /\ "core" \in DOMAIN presetResult
    /\ {"builder", "enableCrashReports"} \subseteq DOMAIN presetArgs.existing
    /\ presetArgs.existing.enableCrashReports = Bool(TRUE)
    /\ presetArgs.options.enableCrashReports = Bool(FALSE)
    /\ presetArgs.options.test = Bool(TRUE)
    /\ presetArgs.options.disableTelemetry = Undefined
    /\ presetArgs.env = Str(<< "f", "a", "l", "U+017F", "e" >>)
    /\ presetResult["core"].enableCrashReports = Bool(FALSE)
    /\ presetResult["core"].disableTelemetry = Bool(TRUE)

-----------------------------------------------------------------------------
(* common-preset.ts: experimental_serverChannel *)

SET_WHATS_NEW_CACHE == "setWhatsNewCache"
REQUEST_WHATS_NEW_DATA == "requestWhatsNewData"
RESULT_WHATS_NEW_DATA == "resultWhatsNewData"
TOGGLE_WHATS_NEW_NOTIFICATIONS == "toggleWhatsNewNotifications"
TELEMETRY_ERROR == "telemetryError"

\* the keys of a WhatsNewCache
CacheKeys == { "lastReadPost", "lastDismissedPost" }

\* the urls of the posts the whats-new endpoint may serve
Urls == { "u1", "u2" }

\* `{}` as a WhatsNewCache
EmptyCache == [k \in {} |-> ""]

\* options.cache: nothing stored under the key, or the stored object
NoCache == [defined |-> FALSE, obj |-> EmptyCache]
Stored(obj) == [defined |-> TRUE, obj |-> obj]

\* the data carried by SET_WHATS_NEW_CACHE events
SetDataPool ==
    { [lastReadPost |-> "u1"],
      [lastDismissedPost |-> "u1"],
      [lastReadPost |-> "u2", lastDismissedPost |-> "u2"] }

\* One invocation of an event handler: the event and its payload (data for
\* SET_WHATS_NEW_CACHE, flag for TOGGLE_WHATS_NEW_NOTIFICATIONS), the await it
\* is suspended at (pc), its locals (cache, post, disableWhatsNewNotifications),
\* and what it did: the RESULT_WHATS_NEW_DATA payloads emitted, the telemetry
\* calls made, whether its promise rejected, which step failed, whether the
\* main config file was written, whether its cache read failed.  pinned is
\* history: the keys whose last completed SET is still in force for it.
NewHandler(event, data, flag, pc) ==
    [event |-> event, data |-> data, flag |-> flag, pc |-> pc,
     cache |-> EmptyCache, post |-> "", disableWhatsNewNotifications |-> Undefined,
     emitted |-> <<>>, calls |-> <<>>, rejected |-> FALSE, failed |-> "none",
     wrote |-> FALSE, readFailed |-> FALSE,
     pinned |-> [k \in CacheKeys |-> "none"]]

\* isTelemetryEnabled always true: coreOptions is not looked at
isTelemetryEnabledAlways == TRUE

\* coreOptions.disableTelemetry !== true
isTelemetryEnabled == coreOptions.disableTelemetry # Bool(TRUE)

\* x === cache[key]; x is a string
IsCached(cache, key, x) == key \in DOMAIN cache /\ cache[key] = x

\* the data of a successful RESULT_WHATS_NEW_DATA
WhatsNewData(post, cache, disableWhatsNewNotifications) ==
    [status |-> "SUCCESS",
     url |-> post,
     postIsRead |-> IsCached(cache, "lastReadPost", post),
     showNotification |-> /\ ~IsCached(cache, "lastDismissedPost", post)
                          /\ ~IsCached(cache, "lastReadPost", post),
     disableWhatsNewNotifications |-> disableWhatsNewNotifications]

\* the catch block of the REQUEST_WHATS_NEW_DATA handler
RequestCatch(h, step) ==
    [h EXCEPT !.emitted = Append(@, [status |-> "ERROR"]),
              !.pc = "done",
              !.failed = step]

\* the catch block of the TOGGLE_WHATS_NEW_NOTIFICATIONS handler; everything
\* thrown in the try block is an Error, so invariant(error instanceof Error)
\* passes
ToggleCatch(h, step) ==
    IF isTelemetryEnabled
    THEN [h EXCEPT !.calls = Append(@, "sendTelemetryError:core-config"),
                   !.pc = "sendTelemetryError",
                   !.failed = step]
    ELSE [h EXCEPT !.pc = "done", !.failed = step]

Receive(h) ==
    /\ Len(handlers) < MaxEvents
    /\ handlers' = Append(handlers, h)

Resume(i, h) == handlers' = [handlers EXCEPT ![i] = h]

Suspended(i, event, pc) ==
    /\ handlers[i].event = event
    /\ handlers[i].pc = pc

\* ---- SET_WHATS_NEW_CACHE ----

\* the event arrives: options.cache.get is called
OnSetWhatsNewCache ==
    /\ \E data \in SetDataPool :
          Receive(NewHandler(SET_WHATS_NEW_CACHE, data, FALSE, "cache.get"))
    /\ UNCHANGED <<coreOptions, cacheStore, mainConfig, lastSet, mergedCache>>
    /\ UNCHANGED <<routerVars, presetVars>>

\* cache.get settles: the stored object (nothing stored spreads like {}), or
\* {} from the .catch; options.cache.set is called with the merge, which is
\* computed here from the cache just read
SetCacheGetSettles ==
    /\ \E i \in DOMAIN handlers : \E ok \in BOOLEAN :
          /\ Suspended(i, SET_WHATS_NEW_CACHE, "cache.get")
          /\ Resume(i, [handlers[i] EXCEPT
                            !.cache = IF ok THEN cacheStore.obj ELSE EmptyCache,
                            !.readFailed = ~ok,
                            !.pc = "cache.set"])
    /\ UNCHANGED <<coreOptions, cacheStore, mainConfig, lastSet, mergedCache>>
    /\ UNCHANGED <<routerVars, presetVars>>

\* cache.set settles: { ...cache, ...data } is stored, or the write fails and
\* the handler's promise rejects
SetCacheSetSettles ==
    /\ \E i \in DOMAIN handlers : \E ok \in BOOLEAN :
          LET h == handlers[i]
              carried(k) == k \in DOMAIN h.data \/ h.readFailed
          IN /\ Suspended(i, SET_WHATS_NEW_CACHE, "cache.set")
             /\ IF ok
                THEN /\ cacheStore' = Stored(Spread(h.cache, h.data))
                     /\ lastSet' = [k \in CacheKeys |->
                                        IF k \in DOMAIN h.data THEN h.data[k]
                                        ELSE IF h.readFailed THEN "none"
                                        ELSE lastSet[k]]
                     /\ mergedCache' =
                            Spread(IF h.readFailed THEN EmptyCache ELSE mergedCache, h.data)
                     /\ handlers' = [j \in DOMAIN handlers |->
                            IF j = i THEN [h EXCEPT !.pc = "done"]
                            ELSE IF handlers[j].pc # "done"
                            THEN [handlers[j] EXCEPT !.pinned =
                                    [k \in CacheKeys |-> IF carried(k) THEN "none" ELSE @[k]]]
                            ELSE handlers[j]]
                ELSE /\ Resume(i, [h EXCEPT !.pc = "done", !.rejected = TRUE,
                                            !.failed = "cache.set"])
                     /\ UNCHANGED <<cacheStore, lastSet, mergedCache>>
    /\ UNCHANGED <<coreOptions, mainConfig>>
    /\ UNCHANGED <<routerVars, presetVars>>

\* ---- REQUEST_WHATS_NEW_DATA ----

\* the event arrives: fetch(WHATS_NEW_URL) is called
OnRequestWhatsNewData ==
    /\ Receive([NewHandler(REQUEST_WHATS_NEW_DATA, EmptyCache, FALSE, "fetch")
                    EXCEPT !.pinned = lastSet])
    /\ UNCHANGED <<coreOptions, cacheStore, mainConfig, lastSet, mergedCache>>
    /\ UNCHANGED <<routerVars, presetVars>>

\* fetch settles: it rejects with a network error, or fulfils with a response
\* that is not ok, which is thrown, or with an ok response, whose json() is
\* called
RequestFetchSettles ==
    /\ \E i \in DOMAIN handlers : \E outcome \in {"networkError", "notOk", "ok"} :
          LET h == handlers[i] IN
          /\ Suspended(i, REQUEST_WHATS_NEW_DATA, "fetch")
          /\ Resume(i, IF outcome = "ok" THEN [h EXCEPT !.pc = "response.json"]
                       ELSE RequestCatch(h, outcome))
    /\ UNCHANGED <<coreOptions, cacheStore, mainConfig, lastSet, mergedCache>>
    /\ UNCHANGED <<routerVars, presetVars>>

\* response.json() settles: it rejects (the body cannot be read or parsed),
\* or fulfils with the post; then findConfigFile looks for the main config
\* and readConfig is called
RequestJsonSettles ==
    /\ \E i \in DOMAIN handlers :
       \E outcome \in {"rejects"} \cup Urls : \E found \in BOOLEAN :
          LET h == handlers[i] IN
          /\ Suspended(i, REQUEST_WHATS_NEW_DATA, "response.json")
          /\ Resume(i, IF outcome \notin Urls THEN RequestCatch(h, "response.json")
                       ELSE IF ~found
                       THEN RequestCatch([h EXCEPT !.post = outcome], "findConfigFile")
                       ELSE [h EXCEPT !.post = outcome, !.pc = "readConfig"])
    /\ UNCHANGED <<coreOptions, cacheStore, mainConfig, lastSet, mergedCache>>
    /\ UNCHANGED <<routerVars, presetVars>>

\* readConfig settles: the field is read and options.cache.get is called, or
\* the read fails
RequestReadConfigSettles ==
    /\ \E i \in DOMAIN handlers : \E ok \in BOOLEAN :
          LET h == handlers[i] IN
          /\ Suspended(i, REQUEST_WHATS_NEW_DATA, "readConfig")
          /\ Resume(i, IF ok
                       THEN [h EXCEPT !.disableWhatsNewNotifications = mainConfig,
                                      !.pc = "cache.get"]
                       ELSE RequestCatch(h, "readConfig"))
    /\ UNCHANGED <<coreOptions, cacheStore, mainConfig, lastSet, mergedCache>>
    /\ UNCHANGED <<routerVars, presetVars>>

\* cache.get settles: the result is emitted (nothing stored reads as {}), or
\* the read fails
RequestCacheGetSettles ==
    /\ \E i \in DOMAIN handlers : \E ok \in BOOLEAN :
          LET h == handlers[i] IN
          /\ Suspended(i, REQUEST_WHATS_NEW_DATA, "cache.get")
          /\ Resume(i, IF ok
                       THEN [h EXCEPT
                                !.cache = cacheStore.obj,
                                !.emitted = Append(@, WhatsNewData(h.post, cacheStore.obj,
                                                     h.disableWhatsNewNotifications)),
                                !.pc = "done"]
                       ELSE RequestCatch(h, "cache.get"))
    /\ UNCHANGED <<coreOptions, cacheStore, mainConfig, lastSet, mergedCache>>
    /\ UNCHANGED <<routerVars, presetVars>>

\* ---- TOGGLE_WHATS_NEW_NOTIFICATIONS ----

\* the event arrives: findConfigFile looks for the main config; readConfig
\* is called, or invariant(mainPath) throws
OnToggleWhatsNewNotifications ==
    /\ \E flag \in BOOLEAN : \E found \in BOOLEAN :
          LET h == NewHandler(TOGGLE_WHATS_NEW_NOTIFICATIONS, EmptyCache, flag, "readConfig")
          IN Receive(IF found THEN h ELSE ToggleCatch(h, "findConfigFile"))
    /\ UNCHANGED <<coreOptions, cacheStore, mainConfig, lastSet, mergedCache>>
    /\ UNCHANGED <<routerVars, presetVars>>

\* readConfig settles: the field is set and fs.writeFile is called, or the
\* read fails
ToggleReadConfigSettles ==
    /\ \E i \in DOMAIN handlers : \E ok \in BOOLEAN :
          LET h == handlers[i] IN
          /\ Suspended(i, TOGGLE_WHATS_NEW_NOTIFICATIONS, "readConfig")
          /\ Resume(i, IF ok THEN [h EXCEPT !.pc = "writeFile"]
                       ELSE ToggleCatch(h, "readConfig"))
    /\ UNCHANGED <<coreOptions, cacheStore, mainConfig, lastSet, mergedCache>>
    /\ UNCHANGED <<routerVars, presetVars>>

\* fs.writeFile settles: the file holds the new value and, with telemetry
\* enabled, telemetry('core-config') is called; or the write fails
ToggleWriteFileSettles ==
    /\ \E i \in DOMAIN handlers : \E ok \in BOOLEAN :
          LET h == handlers[i] IN
          /\ Suspended(i, TOGGLE_WHATS_NEW_NOTIFICATIONS, "writeFile")
          /\ IF ok
             THEN /\ mainConfig' = Bool(h.flag)
                  /\ Resume(i, IF isTelemetryEnabled
                               THEN [h EXCEPT !.wrote = TRUE,
                                              !.calls = Append(@, "telemetry:core-config"),
                                              !.pc = "telemetry"]
                               ELSE [h EXCEPT !.wrote = TRUE, !.pc = "done"])
             ELSE /\ Resume(i, ToggleCatch(h, "writeFile"))
                  /\ UNCHANGED mainConfig
    /\ UNCHANGED <<coreOptions, cacheStore, lastSet, mergedCache>>
    /\ UNCHANGED <<routerVars, presetVars>>

\* telemetry('core-config') settles: the handler ends, or the call rejects
\* and the catch block runs
ToggleTelemetrySettles ==
    /\ \E i \in DOMAIN handlers : \E ok \in BOOLEAN :
          LET h == handlers[i] IN
          /\ Suspended(i, TOGGLE_WHATS_NEW_NOTIFICATIONS, "telemetry")
          /\ Resume(i, IF ok THEN [h EXCEPT !.pc = "done"]
                       ELSE ToggleCatch(h, "telemetry"))
    /\ UNCHANGED <<coreOptions, cacheStore, mainConfig, lastSet, mergedCache>>
    /\ UNCHANGED <<routerVars, presetVars>>

\* ---- TELEMETRY_ERROR ----

\* the event arrives: with telemetry enabled sendTelemetryError is called
OnTelemetryError ==
    /\ LET h == NewHandler(TELEMETRY_ERROR, EmptyCache, FALSE, "done")
       IN Receive(IF isTelemetryEnabled
                  THEN [h EXCEPT !.calls = Append(@, "sendTelemetryError:browser"),
                                 !.pc = "sendTelemetryError"]
                  ELSE h)
    /\ UNCHANGED <<coreOptions, cacheStore, mainConfig, lastSet, mergedCache>>
    /\ UNCHANGED <<routerVars, presetVars>>

\* sendTelemetryError settles, in either handler that awaits it
SendTelemetryErrorSettles ==
    /\ \E i \in DOMAIN handlers :
          /\ handlers[i].pc = "sendTelemetryError"
          /\ Resume(i, [handlers[i] EXCEPT !.pc = "done"])
    /\ UNCHANGED <<coreOptions, cacheStore, mainConfig, lastSet, mergedCache>>
    /\ UNCHANGED <<routerVars, presetVars>>

\* ---- the channel as a whole ----

\* experimental_serverChannel has run: coreOptions is resolved and the four
\* handlers are registered
ChannelInit ==
    /\ RouterIdle
    /\ PresetIdle
    /\ \E dt \in OptionalBool : coreOptions = [disableTelemetry |-> dt]
    /\ cacheStore \in { NoCache, Stored([lastReadPost |-> "u2"]) }
    /\ mainConfig = Undefined
    /\ handlers = <<>>
    /\ lastSet = [k \in CacheKeys |-> "none"]
    /\ mergedCache = cacheStore.obj

\* the browser side emits an event
Emit ==
    \/ OnSetWhatsNewCache
    \/ OnRequestWhatsNewData
    \/ OnToggleWhatsNewNotifications
    \/ OnTelemetryError

\* an awaited promise settles and its handler runs on to the next await
Settle ==
    \/ SetCacheGetSettles
    \/ SetCacheSetSettles
    \/ RequestFetchSettles
    \/ RequestJsonSettles
    \/ RequestReadConfigSettles
    \/ RequestCacheGetSettles
    \/ ToggleReadConfigSettles
    \/ ToggleWriteFileSettles
    \/ ToggleTelemetrySettles
    \/ SendTelemetryErrorSettles

ChannelNext == Emit \/ Settle

SpecChannel == ChannelInit /\ [][ChannelNext]_vars

\* ---- parts of the channel ----

\* only the whats-new events arrive: SET_WHATS_NEW_CACHE and
\* REQUEST_WHATS_NEW_DATA
WhatsNewSettle ==
    \/ SetCacheGetSettles
    \/ SetCacheSetSettles
    \/ RequestFetchSettles
    \/ RequestJsonSettles
    \/ RequestReadConfigSettles
    \/ RequestCacheGetSettles

WhatsNewEmit ==
    /\ Len(handlers) < MaxWhatsNewEvents
    /\ (OnSetWhatsNewCache \/ OnRequestWhatsNewData)

WhatsNewNext == WhatsNewEmit \/ WhatsNewSettle

\* the awaited promises that settle on this machine: the cache and the main
\* config file.  fetch is called without timeout or abort signal, so nothing
\* makes the request to the whats-new server, or the reading of its body,
\* settle.
LocalSettle ==
    \/ SetCacheGetSettles
    \/ SetCacheSetSettles
    \/ RequestReadConfigSettles
    \/ RequestCacheGetSettles

\* telemetry plays no part in these handlers: it is left at its default
WhatsNewInit == ChannelInit /\ coreOptions.disableTelemetry = Undefined

\* local promises settle in the end and the event loop then resumes the
\* handler
FairWhatsNew == WhatsNewInit /\ [][WhatsNewNext]_vars /\ WF_vars(LocalSettle)

\* only the telemetry events arrive: TOGGLE_WHATS_NEW_NOTIFICATIONS and
\* TELEMETRY_ERROR
TelemetryEmit ==
    /\ Len(handlers) < MaxTelemetryEvents
    /\ (OnToggleWhatsNewNotifications \/ OnTelemetryError)

TelemetryNext ==
    \/ TelemetryEmit
    \/ ToggleReadConfigSettles
    \/ ToggleWriteFileSettles
    \/ ToggleTelemetrySettles
    \/ SendTelemetryErrorSettles

\* the whats-new cache plays no part in these handlers: nothing is stored
TelemetryInit == ChannelInit /\ cacheStore = NoCache

SpecTelemetry == TelemetryInit /\ [][TelemetryNext]_vars

-----------------------------------------------------------------------------
(* Claims about experimental_serverChannel *)

Requests == { i \in DOMAIN handlers : handlers[i].event = "requestWhatsNewData" }
Toggles == { i \in DOMAIN handlers : handlers[i].event = "toggleWhatsNewNotifications" }
Sets == { i \in DOMAIN handlers : handlers[i].event = "setWhatsNewCache" }

\* at most one result per request, none while it is pending, and once the
\* handler has ended: SUCCESS if no step failed, exactly {status: 'ERROR'} if
\* one did; the handler's promise never rejects
RequestAnswers ==
    \A i \in Requests :
        LET h == handlers[i] IN
        /\ ~h.rejected
        /\ Len(h.emitted) <= 1
        /\ h.pc # "done" => h.emitted = <<>>
        /\ h.pc = "done" =>
              /\ Len(h.emitted) = 1
              /\ h.failed = "none" => h.emitted[1].status = "SUCCESS"
              /\ h.failed # "none" => h.emitted[1] = [status |-> "ERROR"]

\* C6: every REQUEST_WHATS_NEW_DATA event is eventually answered by exactly
\* one RESULT_WHATS_NEW_DATA emission: SUCCESS when the fetch, the main config
\* lookup and read, and the cache read all succeed, exactly {status: 'ERROR'}
\* when any of them fails; no failure leaves the request unanswered or
\* propagates out of the handler.
C6_RequestAnswered ==
    /\ []RequestAnswers
    /\ \A i \in 1..MaxWhatsNewEvents :
          (i \in Requests) ~> (i \in Requests /\ Len(handlers[i].emitted) = 1)

InSeq(x, q) == \E n \in 1..Len(q) : q[n] = x

\* C7: with disableTelemetry === true in the core config resolved at setup,
\* no handler ever calls telemetry or sendTelemetryError, whatever the
\* TELEMETRY_ERROR and TOGGLE_WHATS_NEW_NOTIFICATIONS events and whether the
\* config write succeeds; with telemetry enabled, a toggle sends 'core-config'
\* only after the main config file was written, and sends a telemetry error
\* and no 'core-config' when finding, reading or writing the file fails.
C7_TelemetryGate ==
    /\ coreOptions.disableTelemetry = [type |-> "boolean", b |-> TRUE]
          => \A i \in DOMAIN handlers : handlers[i].calls = <<>>
    /\ coreOptions.disableTelemetry # [type |-> "boolean", b |-> TRUE]
          => \A i \in Toggles :
                LET h == handlers[i] IN
                /\ InSeq("telemetry:core-config", h.calls) <=> h.wrote
                /\ h.failed \in {"findConfigFile", "readConfig", "writeFile"}
                      => h.calls = << "sendTelemetryError:core-config" >>

\* telemetry disabled: a toggle whose config write failed and a browser
\* telemetry error have both been handled
C7_Witness ==
    /\ coreOptions.disableTelemetry = Bool(TRUE)
    /\ Len(handlers) = 2
    /\ handlers[1].event = "toggleWhatsNewNotifications"
    /\ handlers[1].failed = "writeFile" /\ handlers[1].pc = "done"
    /\ handlers[2].event = "telemetryError" /\ handlers[2].pc = "done"

\* C8: in every SUCCESS result, postIsRead is true exactly when the post's
\* url equals the cached lastReadPost and showNotification exactly when it
\* differs from both lastDismissedPost and lastReadPost, never both true; and
\* once a SET_WHATS_NEW_CACHE carrying lastReadPost = u or lastDismissedPost
\* = u has been fully handled, a later request that fetches the post u
\* reports showNotification = false, until a later SET_WHATS_NEW_CACHE
\* overwrites that key (a SET whose cache read failed counts as overwriting
\* every key).
C8_NoNotificationOnceSet ==
    \A i \in Requests :
        LET h == handlers[i] IN
        \A n \in 1..Len(h.emitted) :
            LET e == h.emitted[n] IN
            e.status = "SUCCESS" =>
                /\ e.postIsRead <=>
                      ("lastReadPost" \in DOMAIN h.cache /\ h.cache["lastReadPost"] = e.url)
                /\ e.showNotification <=>
                      /\ ~("lastReadPost" \in DOMAIN h.cache /\ h.cache["lastReadPost"] = e.url)
                      /\ ~("lastDismissedPost" \in DOMAIN h.cache
                              /\ h.cache["lastDismissedPost"] = e.url)
                /\ ~(e.postIsRead /\ e.showNotification)
                /\ \A k \in CacheKeys : h.pinned[k] = e.url => ~e.showNotification

\* C9: once all SET_WHATS_NEW_CACHE events received have been fully handled,
\* in any interleaving of their cache reads and writes, the stored cache is
\* the merge of the previous cache with the data of every event, later
\* events winning; a failed cache read counts as an empty cache and still
\* leads to the write of the event's data.
C9_SetLosesNoKey ==
    /\ \A i \in Sets :
          handlers[i].readFailed =>
              handlers[i].cache = EmptyCache /\ handlers[i].pc \in {"cache.set", "done"}
    /\ (Sets # {} /\ \A i \in Sets : handlers[i].pc = "done" /\ ~handlers[i].rejected)
          => cacheStore = [defined |-> TRUE, obj |-> mergedCache]

====
